---- MODULE Spec2Model ----
(***************************************************************************)
(* Decision pipeline of the stock discovery tool: the pick ledger          *)
(* (database.py), the learning engine (learning.py), the risk manager      *)
(* (risk_manager.py) and the scanner orchestrator / outcome evaluator      *)
(* (scanner_engine.py).                                                    *)
(*                                                                         *)
(* Number representation.  Python floats are modelled by exact numbers:    *)
(*   - percentages (returns, scores, penalties) are integers or exact      *)
(*     rationals [n, d] with d > 0, kept in lowest terms;                  *)
(*   - strategy weight multipliers are integers in hundredths (1.0 = 100); *)
(*   - the *_PCT configuration fractions are integers in percent.          *)
(***************************************************************************)
EXTENDS Integers, Sequences, FiniteSets, TLC

\* ------------------------------------------------------------ config.py

TOTAL_BUDGET == 500
MAX_RISK_PER_TRADE == 2
MIN_CONVICTION_SCORE == 60
TOP_N_PICKS == 3
MIN_AVG_VOLUME == 100000
HVB_MAX_PICKS == 1
PENNY_STOCK_MAX_PICKS == 2
PENNY_STOCK_MAX_RISK_PCT == 1
MAX_DAILY_LOSS_PCT == 5
MAX_CONCURRENT_POSITIONS == 5
MAX_VOLATILITY_PERCENTILE == 95
MIN_TRADES_BEFORE_LEARNING == 10
CONSERVATIVE_LEARNING_THRESHOLD == 50
WEIGHT_ADJUSTMENT_CONSERVATIVE == 5
WEIGHT_ADJUSTMENT_FULL == 20
HVB_MIN_VOLATILITY_PERCENTILE == 90

\* ------------------------------------------------------------ bounds

\* How far the clock may run: days plus minutes of the day.
MaxTicks == 1
\* Rows the picks and outcomes tables may grow by in one behaviour.
MaxNewPicks == 6
MaxOutcomes == 2
\* Outcomes one behaviour records over a ledger of earlier picks.
MaxLearnOutcomes == 10
\* The trades of the expectancy scenario.
MaxScenarioTrades == 10
\* Rows a direct caller of the ledger may add to each table.
MaxLedgerRows == 2
\* Outcomes saved in the restart specification.
MaxRestartOutcomes == 7
\* Weight recalculations of one strategy in the drift specification.
MaxDriftSteps == 19
\* Outcomes saved in the classification specification.
MaxClassifyOutcomes == 4
\* Outcomes saved in the outage specification.
MaxOutageOutcomes == 4

\* ------------------------------------------------------------ exact numbers

Abs(x) == IF x < 0 THEN -x ELSE x

RECURSIVE Gcd(_, _)
Gcd(a, b) == IF b = 0 THEN a ELSE Gcd(b, a % b)

\* The rational n/d (d > 0) in lowest terms.
Rat(n, d) == LET g == Gcd(Abs(n), d) IN [n |-> n \div g, d |-> d \div g]

FromInt(i) == [n |-> i, d |-> 1]
RAdd(a, b) == Rat(a.n * b.d + b.n * a.d, a.d * b.d)
RSub(a, b) == Rat(a.n * b.d - b.n * a.d, a.d * b.d)
RMulInt(a, i) == Rat(a.n * i, a.d)
RDivInt(a, i) == Rat(a.n, a.d * i)
RLess(a, b) == a.n * b.d < b.n * a.d
RMin(a, b) == IF RLess(b, a) THEN b ELSE a
RMax(a, b) == IF RLess(a, b) THEN b ELSE a

\* ------------------------------------------------------------ domains

IntradayStrategies == {"ORB", "VWAP_PULLBACK"}
\* The keys of LearningEngine.strategy_weights.
WeightedStrategies == {"ORB", "VWAP_PULLBACK", "MOMENTUM_SWING", "HVB"}
Strategies == WeightedStrategies \cup {"EARNINGS_DRIFT"}
Regimes == {"bullish", "bearish", "neutral"}
StatKeys == Strategies \X Regimes
PenaltyKeys == {<<"low_liquidity_hvb", "true">>, <<"gap_no_volume", "true">>,
                <<"far_from_vwap", "true">>}

\* A table row that does not exist (cursor.fetchone() returning None).
NoRow == [exists |-> FALSE]

\* Feature values carry their Python type; a bool holds 1 or 0.  The result
\* of comparing two numpy numbers is a numpy.bool_, which is not a bool.
PyBool(b) == [type |-> "bool", val |-> IF b THEN 1 ELSE 0]
NpBool(b) == [type |-> "npbool", val |-> IF b THEN 1 ELSE 0]
PyNum(x) == [type |-> "num", val |-> x]
PyStr(x) == [type |-> "str", val |-> x]
PyMap(x) == [type |-> "map", val |-> x]
Has(features, key) == key \in DOMAIN features

\* Timestamps are [day, minute]; the clock never runs backwards.
TimeLess(a, b) == a.day < b.day \/ (a.day = b.day /\ a.minute < b.minute)
\* (later - earlier).days of a Python timedelta: whole days elapsed.
DaysBetween(earlier, later) ==
    (later.day - earlier.day) - (IF later.minute < earlier.minute THEN 1 ELSE 0)

\* s reordered so that the sort key descends; elements of
\* equal key keep their relative position (a stable sort); less[i][j] says
\* that the key of s[i] is below the key of s[j].
SortDescending(s, less) ==
    LET rank == [i \in DOMAIN s |->
                    1 + Cardinality({j \in DOMAIN s :
                            \/ less[i][j]
                            \/ (~less[j][i] /\ j < i)})]
    IN [k \in DOMAIN s |-> s[CHOOSE i \in DOMAIN s : rank[i] = k]]

Take(s, n) == IF Len(s) <= n THEN s ELSE SubSeq(s, 1, n)


\* ------------------------------------------------------------ database.py

RECURSIVE MakeJsonSerializable(_)
\* PickLedger._make_json_serializable followed by json.dumps / json.loads on
\* a features mapping: a bool is written as the integer 1 or 0, a dict value
\* is converted recursively, numbers and strings are kept, and any other
\* object (a numpy.bool_) is written as its str().
MakeJsonSerializable(features) ==
    [k \in DOMAIN features |->
        CASE features[k].type = "bool" -> PyNum(features[k].val)
          [] features[k].type = "map" -> PyMap(MakeJsonSerializable(features[k].val))
          [] features[k].type = "npbool" ->
                PyStr(IF features[k].val = 1 THEN "True" ELSE "False")
          [] OTHER -> features[k]]

PickIdTaken(pickRows, pick_id) == \E i \in DOMAIN pickRows : pickRows[i].pick_id = pick_id

\* PickLedger.save_pick: one INSERT; pick_id is UNIQUE, so a duplicate
\* raises sqlite3.IntegrityError and the table is left as it was.
SavePick(pickRows, pick) ==
    IF PickIdTaken(pickRows, pick.pick_id)
    THEN [ok |-> FALSE, picks |-> pickRows]
    ELSE [ok |-> TRUE,
          picks |-> Append(pickRows,
              [pick_id |-> pick.pick_id, symbol |-> pick.symbol,
               strategy |-> pick.strategy, timestamp |-> pick.timestamp,
               conviction_score |-> pick.conviction_score,
               entry_price |-> pick.entry_price, stop_loss |-> pick.stop_loss,
               target_price |-> pick.target_price,
               position_size |-> pick.position_size,
               market_regime |-> pick.market_regime,
               features_json |-> MakeJsonSerializable(pick.features)])]

\* PickLedger.save_outcome: one INSERT; the outcomes table has no UNIQUE
\* constraint and the foreign key is not enforced by the connection.
SaveOutcome(outcomeRows, pick_id, outcome) ==
    Append(outcomeRows,
        [pick_id |-> pick_id, mfe |-> outcome.mfe, mae |-> outcome.mae,
         final_return |-> outcome.final_return,
         hit_target |-> outcome.hit_target, hit_stop |-> outcome.hit_stop])

\* PickLedger.get_strategy_performance.
GetStrategyPerformance(stats, strategy, regime) == stats[<<strategy, regime>>]

\* A faulty variant of the running average: the old mean is weighted by the new
\* count instead of the old one.
UpdateStrategyPerformanceOffByOne(stats, strategy, regime, successful, return_pct) ==
    LET row == stats[<<strategy, regime>>]
        total == IF row.exists THEN row.total_picks + 1 ELSE 1
    IN [stats EXCEPT ![<<strategy, regime>>] =
          [exists |-> TRUE, total_picks |-> total,
           successful_picks |-> (IF row.exists THEN row.successful_picks ELSE 0)
                                + (IF successful THEN 1 ELSE 0),
           avg_return |-> IF row.exists
                          THEN RDivInt(RAdd(RMulInt(row.avg_return, total),
                                            FromInt(return_pct)), total)
                          ELSE FromInt(return_pct),
           weight |-> 100]]

\* PickLedger.update_strategy_performance.
UpdateStrategyPerformance(stats, strategy, regime, successful, return_pct) ==
    LET row == stats[<<strategy, regime>>] IN
    IF row.exists
    THEN LET total == row.total_picks + 1
             successful_count == row.successful_picks + (IF successful THEN 1 ELSE 0)
             new_avg == RDivInt(RAdd(RMulInt(row.avg_return, row.total_picks),
                                     FromInt(return_pct)), total)
         IN [stats EXCEPT ![<<strategy, regime>>] =
               [row EXCEPT !.total_picks = total,
                           !.successful_picks = successful_count,
                           !.avg_return = new_avg]]
    ELSE [stats EXCEPT ![<<strategy, regime>>] =
            [exists |-> TRUE, total_picks |-> 1,
             successful_picks |-> IF successful THEN 1 ELSE 0,
             avg_return |-> FromInt(return_pct), weight |-> 100]]

\* PickLedger.get_total_picks_count.
GetTotalPicksCount(pickRows) == Len(pickRows)

\* PickLedger.get_feature_penalty.
GetFeaturePenalty(penalties, feature_name, feature_value) ==
    LET row == penalties[<<feature_name, feature_value>>]
    IN IF row.exists THEN row.penalty_score ELSE FromInt(0)

\* PickLedger.update_feature_penalty.
UpdateFeaturePenalty(penalties, feature_name, feature_value, failed) ==
    LET row == penalties[<<feature_name, feature_value>>] IN
    IF row.exists
    THEN LET new_occurrences == row.occurrences + 1
             new_failures == row.failures + (IF failed THEN 1 ELSE 0)
             failure_rate == Rat(new_failures, new_occurrences)
             penalty == RMin(FromInt(30), RMulInt(failure_rate, 50))
         IN [penalties EXCEPT ![<<feature_name, feature_value>>] =
               [exists |-> TRUE, occurrences |-> new_occurrences,
                failures |-> new_failures, penalty_score |-> penalty]]
    ELSE [penalties EXCEPT ![<<feature_name, feature_value>>] =
            [exists |-> TRUE, occurrences |-> 1,
             failures |-> IF failed THEN 1 ELSE 0,
             penalty_score |-> IF failed THEN FromInt(10) ELSE FromInt(0)]]

HasOutcome(outcomeRows, pick_id) ==
    \E j \in DOMAIN outcomeRows : outcomeRows[j].pick_id = pick_id

\* PickLedger.get_picks_without_outcomes: LEFT JOIN ... WHERE o.pick_id IS
\* NULL ORDER BY p.timestamp DESC (rows of one timestamp in rowid order).
GetPicksWithoutOutcomes(pickRows, outcomeRows) ==
    LET open == SelectSeq(pickRows, LAMBDA p : ~HasOutcome(outcomeRows, p.pick_id))
        earlier == [i \in DOMAIN open |-> [j \in DOMAIN open |->
                       TimeLess(open[i].timestamp, open[j].timestamp)]]
        rows == SortDescending(open, earlier)
    IN [i \in DOMAIN rows |->
          [pick_id |-> rows[i].pick_id, symbol |-> rows[i].symbol,
           strategy |-> rows[i].strategy, entry_price |-> rows[i].entry_price,
           stop_loss |-> rows[i].stop_loss, target_price |-> rows[i].target_price,
           timestamp |-> rows[i].timestamp]]

\* PickLedger.get_pick_details: the row of pick_id, or NoRow.
GetPickDetails(pickRows, pick_id) ==
    IF PickIdTaken(pickRows, pick_id)
    THEN LET p == pickRows[CHOOSE i \in DOMAIN pickRows : pickRows[i].pick_id = pick_id]
         IN [exists |-> TRUE, strategy |-> p.strategy,
             market_regime |-> p.market_regime,
             features_json |-> p.features_json,
             conviction_score |-> p.conviction_score]
    ELSE NoRow

\* ------------------------------------------------------------ learning.py

Min(a, b) == IF b < a THEN b ELSE a
Max(a, b) == IF a < b THEN b ELSE a
RMul(a, b) == Rat(a.n * b.n, a.d * b.d)

\* A faulty variant of LearningEngine.__init__: the weights start above 1.0.
InitialWeightsRaised == [s \in WeightedStrategies |-> 105]

\* LearningEngine.__init__: every weight starts at 1.0.
InitialWeights == [s \in WeightedStrategies |-> 100]

\* LearningEngine.should_learn.
ShouldLearn(total_picks) == total_picks >= MIN_TRADES_BEFORE_LEARNING

\* A faulty variant of get_learning_mode: the two upper modes exchanged.
GetLearningModeSwapped(total_picks) ==
    IF total_picks < MIN_TRADES_BEFORE_LEARNING THEN "baseline"
    ELSE IF total_picks < CONSERVATIVE_LEARNING_THRESHOLD THEN "full"
    ELSE "conservative"

\* LearningEngine.get_learning_mode.
GetLearningMode(total_picks) ==
    IF total_picks < MIN_TRADES_BEFORE_LEARNING THEN "baseline"
    ELSE IF total_picks < CONSERVATIVE_LEARNING_THRESHOLD THEN "conservative"
    ELSE "full"

\* features.get(key, default) on a numeric feature.
GetNum(features, key, default) == IF Has(features, key) THEN features[key].val ELSE default
\* features.get('volume_surge') == False: None is not equal to False, while
\* the bool False and the number 0 are.
EqualsFalse(features, key) ==
    /\ Has(features, key)
    /\ features[key].type \in {"bool", "npbool", "num"}
    /\ features[key].val = 0
\* not features.get(key, True): the truth value of the stored value.
NotGetDefaultTrue(features, key) ==
    /\ Has(features, key)
    /\ features[key].type \in {"bool", "npbool", "num"}
    /\ features[key].val = 0

\* avg_volume < MIN_AVG_VOLUME * 1.5, without the fraction.
LowLiquidity(features) == features["avg_volume"].val * 2 < MIN_AVG_VOLUME * 3

\* LearningEngine._update_feature_penalties.
UpdateFeaturePenalties(penalties, features, failed) ==
    LET p1 == IF /\ Has(features, "avg_volume")
                 /\ GetNum(features, "volatility_percentile", 0) > 90
                 /\ LowLiquidity(features)
              THEN UpdateFeaturePenalty(penalties, "low_liquidity_hvb", "true", failed)
              ELSE penalties
        p2 == IF /\ Has(features, "breakout_pct")
                 /\ EqualsFalse(features, "volume_surge")
                 /\ features["breakout_pct"].val > 3
              THEN UpdateFeaturePenalty(p1, "gap_no_volume", "true", failed)
              ELSE p1
        p3 == IF /\ Has(features, "distance_from_vwap_pct")
                 /\ features["distance_from_vwap_pct"].val > 2
              THEN UpdateFeaturePenalty(p2, "far_from_vwap", "true", failed)
              ELSE p2
    IN p3

\* A faulty variant of the expectancy: the win rate is left out.
ExpectancyMeanReturn(perf) == perf.avg_return

\* expectancy = win_rate * avg_return of a strategy_stats row.
Expectancy(perf) ==
    RMul(Rat(perf.successful_picks, perf.total_picks), perf.avg_return)

\* The step of the active learning mode.
Adjustment(learning_mode) ==
    IF learning_mode = "conservative" THEN WEIGHT_ADJUSTMENT_CONSERVATIVE
    ELSE WEIGHT_ADJUSTMENT_FULL

\* A faulty variant of the recalculation: no minimum sample is required.
RecalculateWeightsNoMinimum(weights, stats, current_regime, total_picks) ==
    LET learning_mode == GetLearningMode(total_picks) IN
    IF learning_mode = "baseline" THEN weights
    ELSE [s \in DOMAIN weights |->
            LET perf == GetStrategyPerformance(stats, s, current_regime) IN
            IF ~perf.exists THEN weights[s]
            ELSE IF RLess(FromInt(1), Expectancy(perf))
                 THEN Min(150, weights[s] + Adjustment(learning_mode))
                 ELSE IF RLess(Expectancy(perf), Rat(-1, 2))
                      THEN Max(50, weights[s] - Adjustment(learning_mode))
                      ELSE weights[s]]

\* A faulty variant of the recalculation: the cap of 1.5 is not applied.
RecalculateWeightsNoCap(weights, stats, current_regime, total_picks) ==
    LET learning_mode == GetLearningMode(total_picks) IN
    IF learning_mode = "baseline" THEN weights
    ELSE [s \in DOMAIN weights |->
            LET perf == GetStrategyPerformance(stats, s, current_regime) IN
            IF ~perf.exists \/ perf.total_picks < 5 THEN weights[s]
            ELSE IF RLess(FromInt(1), Expectancy(perf))
                 THEN weights[s] + Adjustment(learning_mode)
                 ELSE IF RLess(Expectancy(perf), Rat(-1, 2))
                      THEN Max(50, weights[s] - Adjustment(learning_mode))
                      ELSE weights[s]]

\* LearningEngine._recalculate_weights: one pass over the weighted
\* strategies, each reading its own row of the current regime.
RecalculateWeights(weights, stats, current_regime, total_picks) ==
    LET learning_mode == GetLearningMode(total_picks) IN
    IF learning_mode = "baseline" THEN weights
    ELSE [s \in DOMAIN weights |->
            LET perf == GetStrategyPerformance(stats, s, current_regime) IN
            IF ~perf.exists \/ perf.total_picks < 5 THEN weights[s]
            ELSE IF RLess(FromInt(1), Expectancy(perf))
                 THEN Min(150, weights[s] + Adjustment(learning_mode))
                 ELSE IF RLess(Expectancy(perf), Rat(-1, 2))
                      THEN Max(50, weights[s] - Adjustment(learning_mode))
                      ELSE weights[s]]

\* ------------------------------------------------ learning.py, in doubles

\* A strategy weight as the program holds it: an IEEE 754 double between 0.5
\* and 1.5, written as a whole number of units of 2^-57 in two limbs,
\* hi * 2^29 + lo. Doubles in [0.5, 1) are multiples of 16 units, doubles in
\* [1, 2) multiples of 32 units, and 0.05 is 7205759403792794 units.
FloatBase == 2^29
FloatHalf == [hi |-> 134217728, lo |-> 0]
FloatOne == [hi |-> 268435456, lo |-> 0]
FloatOneAndHalf == [hi |-> 402653184, lo |-> 0]
FloatStepConservative == [hi |-> 13421772, lo |-> 429496730]

FloatLess(a, b) == a.hi < b.hi \/ (a.hi = b.hi /\ a.lo < b.lo)

\* The exact sum and the exact difference (of a larger and a smaller number).
FloatExactAdd(a, b) ==
    [hi |-> a.hi + b.hi + ((a.lo + b.lo) \div FloatBase),
     lo |-> (a.lo + b.lo) % FloatBase]
FloatExactSub(a, b) ==
    IF a.lo >= b.lo THEN [hi |-> a.hi - b.hi, lo |-> a.lo - b.lo]
    ELSE [hi |-> a.hi - b.hi - 1, lo |-> a.lo + FloatBase - b.lo]

\* Round to nearest, ties to even, at the spacing of the doubles around x.
FloatRoundTo(x, grain) ==
    LET r == x.lo % grain
        down == x.lo - r
        up == IF 2 * r > grain \/ (2 * r = grain /\ (down \div grain) % 2 = 1)
              THEN down + grain ELSE down
    IN IF up = FloatBase THEN [hi |-> x.hi + 1, lo |-> 0] ELSE [hi |-> x.hi, lo |-> up]
FloatRound(x) == IF FloatLess(x, FloatOne) THEN FloatRoundTo(x, 16) ELSE FloatRoundTo(x, 32)

\* min(1.5, weight + adjustment) and max(0.5, weight - adjustment) of
\* _recalculate_weights.
FloatRaise(weight, adjustment) ==
    LET sum == FloatRound(FloatExactAdd(weight, adjustment))
    IN IF FloatLess(FloatOneAndHalf, sum) THEN FloatOneAndHalf ELSE sum
FloatLower(weight, adjustment) ==
    LET exact == FloatExactSub(weight, adjustment)
    IN IF FloatLess(exact, FloatHalf) THEN FloatHalf ELSE FloatRound(exact)

\* |strategy_weight - 1.0|; the subtraction is exact for doubles in [0.5, 2].
FloatDistanceFromOne(weight) ==
    IF FloatLess(weight, FloatOne) THEN FloatExactSub(FloatOne, weight)
    ELSE FloatExactSub(weight, FloatOne)

\* abs(weight_adjustment) > 1.0 of apply_learning_to_score, where
\* weight_adjustment is the double nearest to (strategy_weight - 1.0) * 20:
\* that double is above 1.0 exactly when 20 * distance is above 1 + 2^-53
\* (2^57 + 16 units), that is when the distance is above 7205759403792794
\* units.
FloatAdjustmentAboveOne(weight) ==
    FloatLess(FloatStepConservative, FloatDistanceFromOne(weight))

\* Whether abs(weight_adjustment) is above 0.5: the distance is above
\* 2^57 / 40 units, which lies between the two limbs' values below.
FloatAdjustmentAboveHalf(weight) ==
    FloatLess([hi |-> 6710886, lo |-> 214748364], FloatDistanceFromOne(weight))

\* The success and failure flags of an outcome.
Successful(outcome) == outcome.final_return > 0 \/ outcome.hit_target
Failed(outcome) == outcome.hit_stop \/ outcome.final_return < -5

\* A faulty variant of update_from_outcome: a successful outcome is never
\* treated as a failure.
UpdateFromOutcomeExclusive(pickRows, stats, penalties, weights, pick_id, outcome) ==
    LET pick_details == GetPickDetails(pickRows, pick_id) IN
    IF ~pick_details.exists
    THEN [stats |-> stats, penalties |-> penalties, weights |-> weights]
    ELSE LET strategy == pick_details.strategy
             regime == pick_details.market_regime
             stats1 == UpdateStrategyPerformance(stats, strategy, regime,
                           Successful(outcome), outcome.final_return)
             pen1 == IF Failed(outcome) /\ ~Successful(outcome)
                     THEN UpdateFeaturePenalties(penalties, pick_details.features_json, TRUE)
                     ELSE penalties
             w1 == IF ShouldLearn(GetTotalPicksCount(pickRows))
                   THEN RecalculateWeights(weights, stats1, regime,
                                           GetTotalPicksCount(pickRows))
                   ELSE weights
         IN [stats |-> stats1, penalties |-> pen1, weights |-> w1]

\* A faulty variant of update_from_outcome: the patterns of every evaluated
\* pick are counted, as failures only when the outcome failed.
UpdateFromOutcomeEveryOutcome(pickRows, stats, penalties, weights, pick_id, outcome) ==
    LET pick_details == GetPickDetails(pickRows, pick_id) IN
    IF ~pick_details.exists
    THEN [stats |-> stats, penalties |-> penalties, weights |-> weights]
    ELSE LET strategy == pick_details.strategy
             regime == pick_details.market_regime
             stats1 == UpdateStrategyPerformance(stats, strategy, regime,
                           Successful(outcome), outcome.final_return)
             pen1 == UpdateFeaturePenalties(penalties, pick_details.features_json,
                                            Failed(outcome))
             w1 == IF ShouldLearn(GetTotalPicksCount(pickRows))
                   THEN RecalculateWeights(weights, stats1, regime,
                                           GetTotalPicksCount(pickRows))
                   ELSE weights
         IN [stats |-> stats1, penalties |-> pen1, weights |-> w1]

\* LearningEngine.update_from_outcome: the strategy_stats table, the
\* feature_penalties table and the in-memory weights after the call.
UpdateFromOutcome(pickRows, stats, penalties, weights, pick_id, outcome) ==
    LET pick_details == GetPickDetails(pickRows, pick_id) IN
    IF ~pick_details.exists
    THEN [stats |-> stats, penalties |-> penalties, weights |-> weights]
    ELSE LET strategy == pick_details.strategy
             regime == pick_details.market_regime
             stats1 == UpdateStrategyPerformance(stats, strategy, regime,
                           Successful(outcome), outcome.final_return)
             pen1 == IF Failed(outcome)
                     THEN UpdateFeaturePenalties(penalties, pick_details.features_json, TRUE)
                     ELSE penalties
             w1 == IF ShouldLearn(GetTotalPicksCount(pickRows))
                   THEN RecalculateWeights(weights, stats1, regime,
                                           GetTotalPicksCount(pickRows))
                   ELSE weights
         IN [stats |-> stats1, penalties |-> pen1, weights |-> w1]

\* The weight of a strategy: strategy_weights.get(strategy, 1.0).
WeightOf(weights, strategy) ==
    IF strategy \in DOMAIN weights THEN weights[strategy] ELSE 100

\* The penalties apply_learning_to_score subtracts, as <<pattern, penalty>>
\* pairs in the order the code adds them.
ApplicablePenalties(pick, penalties) ==
    LET features == pick.features
        hvb == IF /\ pick.strategy = "HVB"
                  /\ Has(features, "avg_volume")
                  /\ LowLiquidity(features)
                  /\ RLess(FromInt(0), GetFeaturePenalty(penalties, "low_liquidity_hvb", "true"))
               THEN << <<"low_liquidity_hvb",
                         GetFeaturePenalty(penalties, "low_liquidity_hvb", "true")>> >>
               ELSE << >>
        gap == IF /\ Has(features, "breakout_pct")
                  /\ NotGetDefaultTrue(features, "volume_surge")
                  /\ features["breakout_pct"].val > 3
                  /\ RLess(FromInt(0), GetFeaturePenalty(penalties, "gap_no_volume", "true"))
               THEN << <<"gap_no_volume",
                         GetFeaturePenalty(penalties, "gap_no_volume", "true")>> >>
               ELSE << >>
        far == IF /\ Has(features, "distance_from_vwap_pct")
                  /\ features["distance_from_vwap_pct"].val > 2
                  /\ RLess(FromInt(0), GetFeaturePenalty(penalties, "far_from_vwap", "true"))
               THEN << <<"far_from_vwap",
                         GetFeaturePenalty(penalties, "far_from_vwap", "true")>> >>
               ELSE << >>
    IN hvb \o gap \o far

RECURSIVE SumPenalties(_)
SumPenalties(applied) ==
    IF applied = << >> THEN FromInt(0)
    ELSE RAdd(applied[1][2], SumPenalties(Tail(applied)))

\* A faulty variant of apply_learning_to_score: the clamp is missing.
AdjustedPickNoClamp(pick, weights, penalties) ==
    [pick EXCEPT !.conviction_score =
                    RSub(RAdd(pick.conviction_score,
                              Rat((WeightOf(weights, pick.strategy) - 100) * 20, 100)),
                         SumPenalties(ApplicablePenalties(pick, penalties))),
                 !.original_conviction = pick.conviction_score,
                 !.learning_adjustments = << >>,
                 !.adjusted = TRUE]

\* The adjusted pick of apply_learning_to_score outside the baseline guard.
\* The weights are held in exact hundredths. The trail test
\* abs(weight_adjustment) > 1.0 is evaluated by the program in binary floating
\* point, where (1.05 - 1.0) * 20 is 1.0000000000000009 and
\* (0.95 - 1.0) * 20 is -1.0000000000000009: it holds for every weight other
\* than 1.0 that is fewer than 19 steps away from 1.0, which covers the
\* weights of the ledger specifications. The rounding over longer runs is
\* modelled by the Float definitions below.
AdjustedPick(pick, weights, penalties) ==
    LET original_conviction == pick.conviction_score
        strategy_weight == WeightOf(weights, pick.strategy)
        weight_adjustment == Rat((strategy_weight - 100) * 20, 100)
        applied == ApplicablePenalties(pick, penalties)
        total_penalty == SumPenalties(applied)
        trail == (IF strategy_weight # 100
                  THEN <<"strategy_weight">> ELSE << >>)
                 \o [i \in DOMAIN applied |-> applied[i][1]]
        adjusted_conviction ==
            RMax(FromInt(0), RMin(FromInt(100),
                RSub(RAdd(original_conviction, weight_adjustment), total_penalty)))
    IN [pick EXCEPT !.conviction_score = adjusted_conviction,
                    !.original_conviction = original_conviction,
                    !.learning_adjustments = trail,
                    !.adjusted = TRUE]

\* A faulty variant of apply_learning_to_score: the baseline guard is missing.
ApplyLearningToScoreNoGuard(pick, regime, total_picks, weights, penalties) ==
    AdjustedPick(pick, weights, penalties)

\* LearningEngine.apply_learning_to_score.  A pick carries adjusted = FALSE
\* (no original_conviction / learning_adjustments keys) until it is adjusted.
ApplyLearningToScore(pick, regime, total_picks, weights, penalties) ==
    IF ~ShouldLearn(total_picks) THEN pick
    ELSE AdjustedPick(pick, weights, penalties)

\* ------------------------------------------------------------ risk_manager.py

RECURSIVE SumRat(_, _)
\* The sum of term[x] over the finite set S.
SumRat(S, term) ==
    IF S = {} THEN FromInt(0)
    ELSE LET x == CHOOSE y \in S : TRUE
         IN RAdd(term[x], SumRat(S \ {x}, term))

\* A faulty variant of the kill-switch query: the join without the date test.
AllOutcomePairs(pickRows, outcomeRows, clock) ==
    {pr \in (DOMAIN pickRows) \X (DOMAIN outcomeRows) :
        pickRows[pr[1]].pick_id = outcomeRows[pr[2]].pick_id}

\* The rows of picks JOIN outcomes ON pick_id WHERE DATE(p.timestamp) = today,
\* as <<pick rowid, outcome rowid>> pairs.
TodaysOutcomePairs(pickRows, outcomeRows, clock) ==
    {pr \in (DOMAIN pickRows) \X (DOMAIN outcomeRows) :
        /\ pickRows[pr[1]].pick_id = outcomeRows[pr[2]].pick_id
        /\ pickRows[pr[1]].timestamp.day = clock.day}

\* abs(final_return / 100.0) * position_size * entry_price of a joined row.
LossAmount(pickRow, outcomeRow) ==
    RDivInt(RMulInt(pickRow.position_size,
                    Abs(outcomeRow.final_return) * pickRow.entry_price), 100)

\* total_loss of check_daily_loss_threshold: only negative returns count.
TotalLoss(pickRows, outcomeRows, clock) ==
    LET losing == {pr \in TodaysOutcomePairs(pickRows, outcomeRows, clock) :
                      outcomeRows[pr[2]].final_return < 0}
        term == [pr \in losing |-> LossAmount(pickRows[pr[1]], outcomeRows[pr[2]])]
    IN SumRat(losing, term)

\* max_daily_loss = TOTAL_BUDGET * MAX_DAILY_LOSS_PCT.
MaxDailyLoss == Rat(TOTAL_BUDGET * MAX_DAILY_LOSS_PCT, 100)

\* A faulty variant of the kill-switch: the threshold itself is still allowed.
CheckDailyLossThresholdStrict(pickRows, outcomeRows, clock) ==
    [allowed |-> ~RLess(MaxDailyLoss, TotalLoss(pickRows, outcomeRows, clock)),
     total_loss |-> TotalLoss(pickRows, outcomeRows, clock),
     threshold |-> MaxDailyLoss]

\* RiskManager.check_daily_loss_threshold: total_loss >= max_daily_loss halts.
CheckDailyLossThreshold(pickRows, outcomeRows, clock) ==
    LET total_loss == TotalLoss(pickRows, outcomeRows, clock)
    IN [allowed |-> RLess(total_loss, MaxDailyLoss),
        total_loss |-> total_loss,
        threshold |-> MaxDailyLoss]

\* Whether an open pick is still inside its strategy's active window.
StillActive(pickRow, clock) ==
    IF pickRow.strategy \in IntradayStrategies
    THEN DaysBetween(pickRow.timestamp, clock) <= 1
    ELSE DaysBetween(pickRow.timestamp, clock) <= 30

\* active_count of check_concurrent_positions: the pending picks (the rows
\* of get_picks_without_outcomes, whose order does not matter to a count)
\* that are still active.
ActiveCount(pickRows, outcomeRows, clock) ==
    Cardinality({i \in DOMAIN pickRows :
                    /\ ~HasOutcome(outcomeRows, pickRows[i].pick_id)
                    /\ StillActive(pickRows[i], clock)})

\* RiskManager.check_concurrent_positions.
CheckConcurrentPositions(pickRows, outcomeRows, clock) ==
    LET active_count == ActiveCount(pickRows, outcomeRows, clock)
    IN [allowed |-> ~(active_count >= MAX_CONCURRENT_POSITIONS),
        current |-> active_count]

\* RiskManager.check_no_trade_conditions; volatility_percentile -1 is None.
CheckNoTradeConditions(volatility_percentile) ==
    [allowed |-> ~(volatility_percentile # -1
                   /\ volatility_percentile > MAX_VOLATILITY_PERCENTILE)]

\* A faulty variant of can_trade: the position check comes first.
CanTradePositionsFirst(pickRows, outcomeRows, clock, volatility_percentile) ==
    IF ~CheckConcurrentPositions(pickRows, outcomeRows, clock).allowed
    THEN [allowed |-> FALSE, check |-> "concurrent_positions"]
    ELSE IF ~CheckDailyLossThreshold(pickRows, outcomeRows, clock).allowed
    THEN [allowed |-> FALSE, check |-> "daily_loss"]
    ELSE IF ~CheckNoTradeConditions(volatility_percentile).allowed
    THEN [allowed |-> FALSE, check |-> "no_trade"]
    ELSE [allowed |-> TRUE, check |-> "none"]

\* RiskManager.can_trade: daily loss, then positions, then no-trade.
CanTrade(pickRows, outcomeRows, clock, volatility_percentile) ==
    IF ~CheckDailyLossThreshold(pickRows, outcomeRows, clock).allowed
    THEN [allowed |-> FALSE, check |-> "daily_loss"]
    ELSE IF ~CheckConcurrentPositions(pickRows, outcomeRows, clock).allowed
    THEN [allowed |-> FALSE, check |-> "concurrent_positions"]
    ELSE IF ~CheckNoTradeConditions(volatility_percentile).allowed
    THEN [allowed |-> FALSE, check |-> "no_trade"]
    ELSE [allowed |-> TRUE, check |-> "none"]

\* ------------------------------------------------------------ scanner_engine.py

\* config.NIFTY_SYMBOLS, in scan order, and symbol.replace('.NS', '').
NIFTY_SYMBOLS == <<"A.NS", "B.NS", "C.NS">>
BaseName(symbol) ==
    CASE symbol = "A.NS" -> "A" [] symbol = "B.NS" -> "B" [] symbol = "C.NS" -> "C"

\* The value of an absent original_conviction key.
NoScore == [n |-> 0, d |-> 0]
NoPick == [exists |-> FALSE]

\* The signal lists of _analyze_symbol, in the order the strategies are run.
StrategyOrder == <<"ORB", "VWAP_PULLBACK", "MOMENTUM_SWING", "EARNINGS_DRIFT", "HVB">>

\* Whether _analyze_symbol runs a strategy under the scan's options.
StrategyRuns(strategy, opts, input) ==
    CASE strategy \in IntradayStrategies -> opts.mode = "intraday" /\ input.intraday_data
      [] strategy = "MOMENTUM_SWING" -> TRUE
      [] strategy = "EARNINGS_DRIFT" -> input.earnings_detected
      [] strategy = "HVB" -> opts.enable_hvb /\ opts.hvb_enabled

\* results of _analyze_symbol: the signals of the strategies that ran.
SignalResults(opts, input) ==
    LET ran == SelectSeq(StrategyOrder,
                   LAMBDA s : s \in DOMAIN input.signals /\ StrategyRuns(s, opts, input))
    IN [i \in DOMAIN ran |-> input.signals[ran[i]]]

\* max(results, key=conviction_score): the first signal of maximal conviction.
BestOf(results) ==
    results[CHOOSE i \in DOMAIN results :
        /\ \A j \in DOMAIN results :
              ~RLess(results[i].conviction_score, results[j].conviction_score)
        /\ \A j \in 1..(i - 1) :
              RLess(results[j].conviction_score, results[i].conviction_score)]

\* risk_amount / risk_per_share, 0 when the stop is at the entry.
PositionSize(best, opts) ==
    LET risk_pct == IF opts.enable_penny_stock THEN PENNY_STOCK_MAX_RISK_PCT
                    ELSE MAX_RISK_PER_TRADE
        risk_per_share == Abs(best.entry_price - best.stop_loss)
    IN IF risk_per_share > 0
       THEN Rat(TOTAL_BUDGET * risk_pct, 100 * risk_per_share)
       ELSE FromInt(0)

\* The pick id: symbol without '.NS', then the clock to the minute.
PickId(symbol, clock) == <<BaseName(symbol), clock.day, clock.minute>>

\* The pick _analyze_symbol builds from the best signal.
BuildPick(symbol, input, opts, clock, best) ==
    [exists |-> TRUE,
     pick_id |-> PickId(symbol, clock),
     symbol |-> symbol,
     timestamp |-> clock,
     position_size |-> PositionSize(best, opts),
     strategy |-> best.strategy,
     entry_price |-> best.entry_price,
     stop_loss |-> best.stop_loss,
     target_price |-> best.target_price,
     conviction_score |-> IF input.mtf_bearish
                          THEN RDivInt(RMulInt(best.conviction_score, 8), 10)
                          ELSE best.conviction_score,
     features |-> [index_confirmation |-> PyBool(input.index_confirmed),
                   fundamental_metrics |-> PyMap(input.fundamental_metrics)]
                  @@ (IF opts.enable_penny_stock
                      THEN [penny_stock |-> PyBool(TRUE)] ELSE << >>)
                  @@ (IF input.mtf_bearish
                      THEN [bearish_higher_timeframe |-> PyBool(TRUE)] ELSE << >>)
                  @@ best.features,
     is_penny_stock |-> opts.enable_penny_stock,
     market_regime |-> "unknown",
     original_conviction |-> NoScore,
     learning_adjustments |-> << >>,
     adjusted |-> FALSE]

\* The index-confirmation filter on the best signal, then the pick.
ConfirmedPick(symbol, input, opts, clock, best) ==
    IF best.strategy \in {"ORB", "MOMENTUM_SWING"} /\ ~input.index_confirmed
    THEN NoPick
    ELSE BuildPick(symbol, input, opts, clock, best)

\* ScannerEngine._analyze_symbol on one symbol's market snapshot `input`.
AnalyzeSymbol(symbol, input, opts, regime, pickRows, outcomeRows, clock) ==
    IF input.filtered THEN NoPick
    ELSE IF ~CanTrade(pickRows, outcomeRows, clock, input.volatility_percentile).allowed
    THEN NoPick
    ELSE IF ~input.fundamental_allowed \/ input.negative_news THEN NoPick
    ELSE IF SignalResults(opts, input) = << >> THEN NoPick
    ELSE ConfirmedPick(symbol, input, opts, clock, BestOf(SignalResults(opts, input)))

\* The learning step of the symbol loop: a pick is re-scored once the ledger
\* holds enough picks.
Rescored(raw, regime, pickRows, learn) ==
    IF raw.exists /\ ShouldLearn(GetTotalPicksCount(pickRows))
    THEN ApplyLearningToScore(raw, regime, GetTotalPicksCount(pickRows),
                              learn.weights, learn.penalties)
    ELSE raw

\* Whether the symbol loop appends a pick to the candidates.
Kept(pick, hvb_count) ==
    /\ pick.exists
    /\ ~RLess(pick.conviction_score, FromInt(MIN_CONVICTION_SCORE))
    /\ (pick.strategy = "HVB" => hvb_count < HVB_MAX_PICKS)

RECURSIVE Candidates(_, _, _, _, _, _, _, _, _, _)
RECURSIVE NextCandidates(_, _, _, _, _, _, _, _, _, _, _)
\* The loop of scan_market over NIFTY_SYMBOLS from index i on: the candidates
\* appended after `cands`, with the HVB picks taken so far counted.
Candidates(i, cands, hvb_count, inputs, opts, regime, pickRows, outcomeRows, clock, learn) ==
    IF i > Len(NIFTY_SYMBOLS) THEN cands
    ELSE NextCandidates(
            Rescored(AnalyzeSymbol(NIFTY_SYMBOLS[i], inputs[NIFTY_SYMBOLS[i]], opts,
                                   regime, pickRows, outcomeRows, clock),
                     regime, pickRows, learn),
            i, cands, hvb_count, inputs, opts, regime, pickRows, outcomeRows, clock, learn)

\* One turn of the loop, given the symbol's pick, and the turns after it.
NextCandidates(pick, i, cands, hvb_count, inputs, opts, regime, pickRows, outcomeRows, clock, learn) ==
    Candidates(i + 1,
        IF Kept(pick, hvb_count) THEN Append(cands, pick) ELSE cands,
        IF Kept(pick, hvb_count) /\ pick.strategy = "HVB" THEN hvb_count + 1 ELSE hvb_count,
        inputs, opts, regime, pickRows, outcomeRows, clock, learn)

\* The pick the symbol loop of scan_market holds for each symbol after the
\* learning step, before the conviction floor and the HVB cap.
SymbolPicks(inputs, opts, regime, pickRows, outcomeRows, clock, learn) ==
    [i \in DOMAIN NIFTY_SYMBOLS |->
        Rescored(AnalyzeSymbol(NIFTY_SYMBOLS[i], inputs[NIFTY_SYMBOLS[i]], opts,
                               regime, pickRows, outcomeRows, clock),
                 regime, pickRows, learn)]

\* The candidates by conviction, highest first.
ByConviction(cands) ==
    SortDescending(cands,
        [i \in DOMAIN cands |-> [j \in DOMAIN cands |->
            RLess(cands[i].conviction_score, cands[j].conviction_score)]])

\* A faulty variant of the cut: penny-stock picks are not limited.
CutTopNoPennyCap(sorted, opts) == Take(sorted, TOP_N_PICKS)

\* The cut to TOP_N_PICKS, the penny-stock picks first when that mode is on.
CutTop(sorted, opts) ==
    IF opts.enable_penny_stock
    THEN Take(Take(SelectSeq(sorted, LAMBDA p : p.is_penny_stock), PENNY_STOCK_MAX_PICKS)
              \o SelectSeq(sorted, LAMBDA p : ~p.is_penny_stock), TOP_N_PICKS)
    ELSE Take(sorted, TOP_N_PICKS)

\* top_picks of scan_market.
TopPicks(cands, opts) == CutTop(ByConviction(cands), opts)

\* pick['market_regime'] = index_trend on every top pick.
WithRegime(top_picks, regime) ==
    [i \in DOMAIN top_picks |-> [top_picks[i] EXCEPT !.market_regime = regime]]

RECURSIVE SaveAll(_, _, _)
RECURSIVE SaveNext(_, _, _)
\* The save loop of scan_market from index i on: each save_pick commits on
\* its own, and the first IntegrityError ends the scan.
SaveAll(i, top_picks, pickRows) ==
    IF i > Len(top_picks) THEN [ok |-> TRUE, picks |-> pickRows]
    ELSE SaveNext(i, top_picks, SavePick(pickRows, top_picks[i]))

SaveNext(i, top_picks, saved) ==
    IF saved.ok THEN SaveAll(i + 1, top_picks, saved.picks)
    ELSE [ok |-> FALSE, picks |-> saved.picks]

\* What a scan that got past the risk check did.
Completed(top_picks, saved) ==
    [halted |-> FALSE, check |-> "none", analysed |-> Len(NIFTY_SYMBOLS),
     top_picks |-> top_picks, error |-> ~saved.ok, picks |-> saved.picks]

\* The save loop of scan_market and what the scan returns after it.
SaveTopPicks(top_picks, pickRows) ==
    Completed(top_picks, SaveAll(1, top_picks, pickRows))

\* The symbol loop, the ranking and the save loop of scan_market.
ScanSymbols(inputs, opts, regime, pickRows, outcomeRows, clock, learn) ==
    SaveTopPicks(
        WithRegime(TopPicks(Candidates(1, << >>, 0, inputs, opts, regime,
                                       pickRows, outcomeRows, clock, learn), opts),
                   regime),
        pickRows)

\* What a scan halted by the risk check did.
Halted(risk_check, pickRows) ==
    [halted |-> TRUE, check |-> risk_check.check, analysed |-> 0,
     top_picks |-> << >>, error |-> FALSE, picks |-> pickRows]

\* A faulty variant of scan_market: the scan goes on after a failed risk check.
ScanMarketNoHalt(inputs, opts, regime, pickRows, outcomeRows, clock, learn) ==
    ScanSymbols(inputs, opts, regime, pickRows, outcomeRows, clock, learn)

\* ScannerEngine.scan_market: what it returns (top_picks, or nothing after a
\* halt or an error), how many symbols it analysed, and the picks table after.
ScanMarket(inputs, opts, regime, pickRows, outcomeRows, clock, learn) ==
    IF ~CanTrade(pickRows, outcomeRows, clock, -1).allowed
    THEN Halted(CanTrade(pickRows, outcomeRows, clock, -1), pickRows)
    ELSE ScanSymbols(inputs, opts, regime, pickRows, outcomeRows, clock, learn)

\* horizon_days of compute_outcomes_for_pending_picks.
HorizonDays(strategy) == IF strategy \in IntradayStrategies THEN 1 ELSE 10

\* The bars the data source returns for a pick's horizon: none (no data, or
\* no bar since the entry), or their highest high, lowest low and last close.
NoData == [available |-> FALSE]

\* A faulty variant of compute_outcome: a pick without price data is taken
\* to have been stopped out.
ComputeOutcomeAssumesStop(pickRow, bars) ==
    IF ~bars.available
    THEN [mfe |-> 0, mae |-> 0,
          final_return |-> ((pickRow.stop_loss - pickRow.entry_price) * 100)
                              \div pickRow.entry_price,
          hit_target |-> FALSE, hit_stop |-> TRUE]
    ELSE [mfe |-> ((bars.high - pickRow.entry_price) * 100) \div pickRow.entry_price,
          mae |-> ((bars.low - pickRow.entry_price) * 100) \div pickRow.entry_price,
          final_return |-> ((bars.close - pickRow.entry_price) * 100) \div pickRow.entry_price,
          hit_target |-> bars.high >= pickRow.target_price,
          hit_stop |-> bars.low <= pickRow.stop_loss]

\* MarketDataFetcher.compute_outcome; the percentages are whole numbers for
\* the entry prices of the model.
ComputeOutcome(pickRow, bars) ==
    IF ~bars.available
    THEN [mfe |-> 0, mae |-> 0, final_return |-> 0,
          hit_target |-> FALSE, hit_stop |-> FALSE]
    ELSE [mfe |-> ((bars.high - pickRow.entry_price) * 100) \div pickRow.entry_price,
          mae |-> ((bars.low - pickRow.entry_price) * 100) \div pickRow.entry_price,
          final_return |-> ((bars.close - pickRow.entry_price) * 100) \div pickRow.entry_price,
          hit_target |-> bars.high >= pickRow.target_price,
          hit_stop |-> bars.low <= pickRow.stop_loss]

\* ------------------------------------------------------------ inputs

\* Signals the strategy generators return (entry, stop and target prices,
\* conviction, feature bag).
OrbSignal ==
    [strategy |-> "ORB", entry_price |-> 100, stop_loss |-> 98, target_price |-> 104,
     conviction_score |-> FromInt(80),
     features |-> [volume_surge |-> NpBool(TRUE), breakout_pct |-> PyNum(4),
                   volatility_percentile |-> PyNum(50)]]
MomentumSignal ==
    [strategy |-> "MOMENTUM_SWING", entry_price |-> 100, stop_loss |-> 95,
     target_price |-> 110, conviction_score |-> FromInt(65),
     features |-> [volume_trend_up |-> NpBool(TRUE),
                   volatility_percentile |-> PyNum(50)]]
HvbSignal ==
    [strategy |-> "HVB", entry_price |-> 100, stop_loss |-> 95, target_price |-> 110,
     conviction_score |-> FromInt(75),
     features |-> [volatility_percentile |-> PyNum(92), volume_surge |-> NpBool(TRUE),
                   avg_volume |-> PyNum(120000), breakout_pct |-> PyNum(1),
                   warning |-> PyStr("High volatility - expect large swings both ways")]]

\* A symbol's market snapshot that passes every filter of _analyze_symbol.
Snapshot(signals, volatility_percentile) ==
    [filtered |-> FALSE, volatility_percentile |-> volatility_percentile,
     fundamental_allowed |-> TRUE, negative_news |-> FALSE,
     intraday_data |-> TRUE, earnings_detected |-> FALSE,
     signals |-> signals, index_confirmed |-> TRUE, mtf_bearish |-> FALSE,
     fundamental_metrics |-> [pe_ratio |-> PyNum(15)]]

\* A snapshot the price, volume or circuit-breaker filters reject.
Quiet == [Snapshot(<< >>, 50) EXCEPT !.filtered = TRUE]

\* The snapshot of a symbol on which its strategies fire.
Active(symbol) ==
    CASE symbol = "A.NS" -> Snapshot([ORB |-> OrbSignal], 50)
      [] symbol = "B.NS" -> Snapshot([MOMENTUM_SWING |-> MomentumSignal], 50)
      [] symbol = "C.NS" -> Snapshot([MOMENTUM_SWING |-> MomentumSignal,
                                      HVB |-> HvbSignal], 92)

\* A snapshot on which the volatility breakout fires with full conviction.
Surging == Snapshot([HVB |-> [HvbSignal EXCEPT !.conviction_score = FromInt(100)]], 92)

SymbolSet == {NIFTY_SYMBOLS[i] : i \in DOMAIN NIFTY_SYMBOLS}

\* The market of one scan: no symbol fires, one does, or all do.
ScanInputs == {[s \in SymbolSet |-> IF s \in T THEN Active(s) ELSE Quiet] :
                 T \in {{}, {"A.NS"}, SymbolSet}}

\* The options of one scan.
ScanOptions ==
    {[mode |-> "intraday", enable_hvb |-> TRUE, hvb_enabled |-> TRUE,
      enable_penny_stock |-> FALSE]}

\* A snapshot on which only the volatility breakout fires.
Breakout == Snapshot([HVB |-> HvbSignal], 92)

\* The markets and options of a ranked scan: each symbol is filtered out,
\* fires its usual strategies, or fires the volatility breakout with the
\* usual or with full conviction; penny-stock mode is off or on.
RankInputs ==
    {[s \in SymbolSet |-> "quiet"],
     [s \in SymbolSet |-> "active"],
     [s \in SymbolSet |-> "breakout"],
     [s \in SymbolSet |-> IF s = "A.NS" THEN "breakout"
                          ELSE IF s = "B.NS" THEN "active" ELSE "surging"],
     [s \in SymbolSet |-> IF s = "A.NS" THEN "surging"
                          ELSE IF s = "B.NS" THEN "active" ELSE "breakout"]}
RankSnapshot(symbol, kind) ==
    CASE kind = "quiet" -> Quiet
      [] kind = "active" -> Active(symbol)
      [] kind = "breakout" -> Breakout
      [] kind = "surging" -> Surging
RankOptions ==
    {[mode |-> "intraday", enable_hvb |-> TRUE, hvb_enabled |-> TRUE,
      enable_penny_stock |-> penny] : penny \in BOOLEAN}

\* What the data source returns for a pick's horizon.
BarsUp == [available |-> TRUE, high |-> 110, low |-> 99, close |-> 108]
BarsDown3 == [available |-> TRUE, high |-> 101, low |-> 97, close |-> 97]
BarsDown5 == [available |-> TRUE, high |-> 101, low |-> 95, close |-> 95]
BarsDown6 == [available |-> TRUE, high |-> 101, low |-> 94, close |-> 94]
\* Bars that reach both the target and the stop and close above the entry.
BarsWhipsaw == [available |-> TRUE, high |-> 110, low |-> 95, close |-> 102]
MarketBars == {BarsDown5, NoData}
ClassifyBars == {BarsUp, BarsDown3, BarsDown6, BarsWhipsaw}
LearnBars == {BarsUp, BarsDown6}
ScenarioBars == {BarsUp, BarsDown3}

\* ------------------------------------------------------------ scoring_engine.py

RAbs(a) == [n |-> Abs(a.n), d |-> a.d]
\* a / b for b > 0.
RDiv(a, b) == Rat(a.n * b.d, a.d * b.n)
\* a * n / d.
RScale(a, n, d) == Rat(a.n * n, a.d * d)

\* A faulty variant of the clamp: the value is returned as computed.
ClampMissing(x) == x

\* max(0.0, min(100.0, x)).
Clamp100(x) == RMax(FromInt(0), RMin(FromInt(100), x))

\* A data frame is the readings the code takes from it: rows is len(df);
\* a frame that is None or empty has no rows.
NoFrame == [rows |-> 0]
Empty(df) == df.rows = 0

\* An optional argument: None, or a value.
None == [given |-> FALSE]
Some(v) == [given |-> TRUE, val |-> v]

\* TechnicalIndicators.calculate_atr (period 14).
CalculateAtr(df) == IF Empty(df) \/ df.rows < 15 THEN FromInt(0) ELSE df.atr

\* TechnicalIndicators.calculate_rsi (period 14).
CalculateRsi(df) == IF Empty(df) \/ df.rows < 15 THEN 50 ELSE df.rsi

\* TechnicalIndicators.calculate_volatility_percentile (lookback 60).
CalculateVolatilityPercentile(df) ==
    IF Empty(df) \/ df.rows < 60 THEN 50 ELSE df.percentile

\* TechnicalIndicators.calculate_moving_averages(df, 20, 50).
CalculateMovingAverages(df) ==
    IF Empty(df) THEN [ma_short |-> FromInt(0), ma_long |-> FromInt(0), ma_cross |-> FALSE]
    ELSE LET ma_short == IF df.rows >= 20 THEN df.ma_20 ELSE df.close
             ma_long == IF df.rows >= 50 THEN df.ma_50 ELSE df.close
         IN [ma_short |-> ma_short, ma_long |-> ma_long,
             ma_cross |-> RLess(ma_long, ma_short)]

\* A faulty variant of calculate_trend_score: a missing price series scores 0.
CalculateTrendScoreNoNeutral(daily_df, current_price) ==
    IF Empty(daily_df) THEN FromInt(0) ELSE
    IF Empty(daily_df) \/ daily_df.rows < 50 THEN FromInt(50)
    ELSE LET ma_20 == daily_df.ma_20
             ma_50 == daily_df.ma_50
             above_20 == RLess(ma_20, current_price)
             above_50 == RLess(ma_50, current_price)
             dist_from_20 == IF ma_20.n > 0
                             THEN RDiv(RAbs(RSub(current_price, ma_20)), ma_20)
                             ELSE FromInt(0)
             ma_alignment == IF RLess(ma_50, ma_20) THEN 1 ELSE -1
             trend == IF above_20 /\ above_50 THEN 20
                      ELSE IF above_20 THEN 10
                      ELSE IF ~above_20 /\ ~above_50 THEN -20
                      ELSE -10
             distance == RMin(FromInt(10), RMulInt(dist_from_20, 1000))
         IN Clamp100(RAdd(FromInt(50 + trend + ma_alignment * 10),
                          IF above_20 THEN distance ELSE RSub(FromInt(0), distance)))

\* ScoringEngine.calculate_trend_score.
CalculateTrendScore(daily_df, current_price) ==
    IF Empty(daily_df) \/ daily_df.rows < 50 THEN FromInt(50)
    ELSE LET ma_20 == daily_df.ma_20
             ma_50 == daily_df.ma_50
             above_20 == RLess(ma_20, current_price)
             above_50 == RLess(ma_50, current_price)
             dist_from_20 == IF ma_20.n > 0
                             THEN RDiv(RAbs(RSub(current_price, ma_20)), ma_20)
                             ELSE FromInt(0)
             ma_alignment == IF RLess(ma_50, ma_20) THEN 1 ELSE -1
             trend == IF above_20 /\ above_50 THEN 20
                      ELSE IF above_20 THEN 10
                      ELSE IF ~above_20 /\ ~above_50 THEN -20
                      ELSE -10
             distance == RMin(FromInt(10), RMulInt(dist_from_20, 1000))
         IN Clamp100(RAdd(FromInt(50 + trend + ma_alignment * 10),
                          IF above_20 THEN distance ELSE RSub(FromInt(0), distance)))

\* ScoringEngine.calculate_momentum_score.
CalculateMomentumScore(daily_df, current_price, breakout_pct) ==
    IF Empty(daily_df) \/ daily_df.rows < 20 THEN FromInt(50)
    ELSE LET roc_5 == RMulInt(RDiv(RSub(daily_df.close, daily_df.close_5),
                                   daily_df.close_5), 100)
             roc_10 == RMulInt(RDiv(RSub(daily_df.close, daily_df.close_10),
                                    daily_df.close_10), 100)
             rsi == CalculateRsi(daily_df)
             rsi_momentum == IF 50 < rsi /\ rsi < 70 THEN 20
                             ELSE IF rsi >= 70 THEN 10
                             ELSE IF rsi < 30 THEN -20
                             ELSE 0
             breakout_score == IF breakout_pct.n # 0
                               THEN RMin(FromInt(30), RMulInt(RAbs(breakout_pct), 10))
                               ELSE FromInt(0)
             roc_score == RMin(FromInt(30),
                               RMulInt(RDivInt(RAdd(RAbs(roc_5), RAbs(roc_10)), 2), 2))
         IN Clamp100(RAdd(RAdd(FromInt(50 + rsi_momentum),
                               IF roc_5.n > 0 THEN roc_score
                               ELSE RSub(FromInt(0), roc_score)),
                          breakout_score))

\* ScoringEngine.calculate_volume_score.
CalculateVolumeScore(daily_df, current_volume, volume_surge) ==
    IF Empty(daily_df) THEN FromInt(50)
    ELSE IF daily_df.avg_volume.n = 0 THEN FromInt(50)
    ELSE LET volume_ratio == RDiv(IF current_volume.given THEN current_volume.val
                                  ELSE daily_df.last_volume,
                                  daily_df.avg_volume)
             volume_trend == IF daily_df.rows >= 20 /\ daily_df.older_volume.n > 0
                             THEN RDiv(daily_df.recent_volume, daily_df.older_volume)
                             ELSE FromInt(1)
             surge == IF volume_surge \/ RLess(Rat(3, 2), volume_ratio) THEN 25
                      ELSE IF RLess(Rat(6, 5), volume_ratio) THEN 15
                      ELSE IF RLess(FromInt(1), volume_ratio) THEN 5
                      ELSE IF RLess(volume_ratio, Rat(4, 5)) THEN -15
                      ELSE 0
             trend == IF RLess(Rat(11, 10), volume_trend) THEN 10
                      ELSE IF RLess(volume_trend, Rat(9, 10)) THEN -10
                      ELSE 0
         IN Clamp100(FromInt(50 + surge + trend))

\* ScoringEngine.calculate_volatility_score.
CalculateVolatilityScore(daily_df, volatility_percentile) ==
    IF Empty(daily_df) THEN FromInt(50)
    ELSE LET percentile == IF volatility_percentile.given THEN volatility_percentile.val
                           ELSE CalculateVolatilityPercentile(daily_df)
             atr_pct == IF daily_df.close.n > 0
                        THEN RMulInt(RDiv(CalculateAtr(daily_df), daily_df.close), 100)
                        ELSE FromInt(0)
             level == IF 60 <= percentile /\ percentile <= 80 THEN 25
                      ELSE IF 50 <= percentile /\ percentile < 60 THEN 15
                      ELSE IF 80 < percentile /\ percentile <= 90 THEN 10
                      ELSE IF percentile > 90 THEN -10
                      ELSE IF percentile < 30 THEN -15
                      ELSE 0
             range == IF ~RLess(atr_pct, FromInt(1)) /\ ~RLess(FromInt(3), atr_pct) THEN 10
                      ELSE IF RLess(FromInt(5), atr_pct) THEN -15
                      ELSE IF RLess(atr_pct, Rat(1, 2)) THEN -10
                      ELSE 0
         IN Clamp100(FromInt(50 + level + range))

\* ScoringEngine.calculate_sentiment_score.
CalculateSentimentScore(sentiment_data) ==
    IF ~sentiment_data.given THEN FromInt(50)
    ELSE LET polarity == IF "polarity" \in sentiment_data.keys
                         THEN sentiment_data.polarity ELSE FromInt(0)
             confidence == IF "confidence" \in sentiment_data.keys
                           THEN sentiment_data.confidence ELSE Rat(1, 2)
             base_score == RAdd(FromInt(50), RMulInt(polarity, 50))
         IN Clamp100(RAdd(RMul(base_score, confidence),
                          RMul(FromInt(50), RSub(FromInt(1), confidence))))

\* ScoringEngine.calculate_liquidity_score.
CalculateLiquidityScore(daily_df, min_avg_volume) ==
    IF Empty(daily_df) THEN FromInt(0)
    ELSE LET avg_volume == daily_df.avg_volume
             avg_value == RMul(avg_volume, daily_df.close)
             base_score == IF ~RLess(avg_volume, FromInt(min_avg_volume * 5)) THEN 100
                           ELSE IF ~RLess(avg_volume, FromInt(min_avg_volume * 3)) THEN 85
                           ELSE IF ~RLess(avg_volume, FromInt(min_avg_volume * 2)) THEN 70
                           ELSE IF ~RLess(avg_volume, Rat(min_avg_volume * 3, 2)) THEN 60
                           ELSE IF ~RLess(avg_volume, FromInt(min_avg_volume)) THEN 50
                           ELSE 30
             with_value == IF ~RLess(avg_value, FromInt(10000000))
                           THEN Min(100, base_score + 10)
                           ELSE IF ~RLess(avg_value, FromInt(5000000))
                           THEN Min(100, base_score + 5)
                           ELSE base_score
         IN Clamp100(FromInt(with_value))

\* ScoringEngine.calculate_risk_score.
CalculateRiskScore(daily_df, entry_price, stop_loss, target_price, volatility_percentile) ==
    IF Empty(daily_df) THEN FromInt(50)
    ELSE LET risk_amount == RAbs(RSub(entry_price, stop_loss))
             reward_amount == RAbs(RSub(target_price, entry_price))
             rr_ratio == IF risk_amount.n > 0 THEN RDiv(reward_amount, risk_amount)
                         ELSE FromInt(0)
             sl_distance_pct == IF entry_price.n > 0
                                THEN RMulInt(RDiv(risk_amount, entry_price), 100)
                                ELSE FromInt(0)
             percentile == IF volatility_percentile.given THEN volatility_percentile.val
                           ELSE CalculateVolatilityPercentile(daily_df)
             drawdown_pct == IF daily_df.rows >= 20 /\ daily_df.recent_high.n > 0
                             THEN RMulInt(RDiv(RSub(daily_df.recent_high, daily_df.close),
                                               daily_df.recent_high), 100)
                             ELSE FromInt(0)
             reward == IF ~RLess(rr_ratio, FromInt(3)) THEN -20
                       ELSE IF ~RLess(rr_ratio, FromInt(2)) THEN -10
                       ELSE IF ~RLess(rr_ratio, Rat(3, 2)) THEN -5
                       ELSE IF RLess(rr_ratio, FromInt(1)) THEN 15
                       ELSE 0
             stop == IF RLess(sl_distance_pct, FromInt(1)) THEN 20
                     ELSE IF RLess(sl_distance_pct, FromInt(2)) THEN 10
                     ELSE IF RLess(FromInt(5), sl_distance_pct) THEN -5
                     ELSE 0
             volatility == IF percentile > 90 THEN 15
                           ELSE IF percentile > 80 THEN 10
                           ELSE IF percentile < 30 THEN -5
                           ELSE 0
             drawdown == IF RLess(FromInt(10), drawdown_pct) THEN 10
                         ELSE IF RLess(FromInt(5), drawdown_pct) THEN 5
                         ELSE 0
         IN Clamp100(FromInt(50 + reward + stop + volatility + drawdown))

\* The weighted average of calculate_composite_scores, before its clamp.
WeightedConviction(d) ==
    RDivInt(RAdd(RAdd(RAdd(RMulInt(d.trend, 20), RMulInt(d.momentum, 20)),
                      RAdd(RMulInt(d.volume, 15), RMulInt(d.volatility, 15))),
                 RAdd(RAdd(RMulInt(d.sentiment, 10), RMulInt(d.liquidity, 10)),
                      RMulInt(RSub(FromInt(100), d.risk), 10))), 100)

\* The record calculate_composite_scores returns for its seven dimensions.
CompositeOf(d) ==
    [conviction_score |-> Clamp100(WeightedConviction(d)),
     risk_score |-> d.risk,
     dimension_scores |-> d]

\* ScoringEngine.calculate_composite_scores (intraday_df is not read).
CalculateCompositeScores(daily_df, entry_price, stop_loss, target_price, current_volume, volume_surge, breakout_pct, volatility_percentile, sentiment_data, min_avg_volume) ==
    CompositeOf([trend |-> CalculateTrendScore(daily_df, entry_price),
                 momentum |-> CalculateMomentumScore(daily_df, entry_price, breakout_pct),
                 volume |-> CalculateVolumeScore(daily_df, current_volume, volume_surge),
                 volatility |-> CalculateVolatilityScore(daily_df, volatility_percentile),
                 sentiment |-> CalculateSentimentScore(sentiment_data),
                 liquidity |-> CalculateLiquidityScore(daily_df, min_avg_volume),
                 risk |-> CalculateRiskScore(daily_df, entry_price, stop_loss,
                                             target_price, volatility_percentile)])

\* ------------------------------------------------------------ strategies

\* A strategy returning None.
NoCandidate == [exists |-> FALSE]

\* The candidate dict a strategy returns (its feature bag left out).
Candidate(strategy, entry_price, stop_loss, target_price, scores) ==
    [exists |-> TRUE, strategy |-> strategy, entry_price |-> entry_price,
     stop_loss |-> stop_loss, target_price |-> target_price,
     conviction_score |-> scores.conviction_score,
     risk_score |-> scores.risk_score,
     dimension_scores |-> scores.dimension_scores]

\* avg_volume of the daily frame, or current_volume without daily data.
AverageVolume(daily_df, current_volume) ==
    IF ~Empty(daily_df) THEN daily_df.avg_volume ELSE current_volume

\* OpeningRangeBreakout.analyze.
OrbAnalyze(intraday_df, daily_df, sentiment_data) ==
    IF Empty(intraday_df) \/ intraday_df.rows < 15 THEN NoCandidate
    ELSE LET orb_high == intraday_df.orb_high
             orb_low == intraday_df.orb_low
             current_price == intraday_df.close
             current_volume == intraday_df.recent_volume
             volume_surge == RLess(RScale(AverageVolume(daily_df, current_volume), 6, 5),
                                   current_volume)
             atr == IF CalculateAtr(daily_df).n = 0 THEN RSub(orb_high, orb_low)
                    ELSE CalculateAtr(daily_df)
             stop_loss == RMax(RSub(orb_high, RScale(atr, 3, 2)), orb_low)
             target == RAdd(orb_high, RMulInt(atr, 2))
             breakout_pct == RMulInt(RDiv(RSub(current_price, orb_high), orb_high), 100)
         IN IF ~(RLess(orb_high, current_price) /\ volume_surge) THEN NoCandidate
            ELSE Candidate("ORB", current_price, stop_loss, target,
                     CalculateCompositeScores(daily_df, current_price, stop_loss, target,
                         Some(current_volume), volume_surge, breakout_pct,
                         Some(CalculateVolatilityPercentile(daily_df)),
                         sentiment_data, MIN_AVG_VOLUME))

\* VWAPPullback.analyze.
VwapAnalyze(intraday_df, daily_df, sentiment_data) ==
    IF Empty(intraday_df) \/ intraday_df.rows < 50 THEN NoCandidate
    ELSE IF intraday_df.vwap.n = 0 THEN NoCandidate
    ELSE LET vwap == intraday_df.vwap
             current_price == intraday_df.close
             distance_from_vwap == RDiv(RAbs(RSub(current_price, vwap)), vwap)
             near_vwap == RLess(distance_from_vwap, Rat(1, 100))
             above_vwap == RLess(RScale(vwap, 998, 1000), current_price)
             uptrend == IF ~Empty(daily_df) /\ daily_df.rows >= 20
                        THEN CalculateMovingAverages(daily_df).ma_cross
                        ELSE TRUE
             atr == IF CalculateAtr(daily_df).n = 0 THEN RScale(current_price, 2, 100)
                    ELSE CalculateAtr(daily_df)
             stop_loss == RSub(vwap, atr)
             target == RAdd(current_price, RScale(atr, 5, 2))
             current_volume == intraday_df.recent_volume
             volume_surge == RLess(RScale(AverageVolume(daily_df, current_volume), 11, 10),
                                   current_volume)
         IN IF ~(near_vwap /\ above_vwap /\ uptrend) THEN NoCandidate
            ELSE Candidate("VWAP_PULLBACK", current_price, stop_loss, target,
                     CalculateCompositeScores(daily_df, current_price, stop_loss, target,
                         Some(current_volume), volume_surge, FromInt(0),
                         Some(CalculateVolatilityPercentile(daily_df)),
                         sentiment_data, MIN_AVG_VOLUME))

\* MomentumSwing.analyze.
MomentumAnalyze(daily_df, sentiment_data) ==
    IF Empty(daily_df) \/ daily_df.rows < 50 THEN NoCandidate
    ELSE LET current_price == daily_df.close
             mas == CalculateMovingAverages(daily_df)
             rsi == CalculateRsi(daily_df)
             volume_trend == RLess(daily_df.older_volume, daily_df.recent_volume)
             atr == IF CalculateAtr(daily_df).n = 0 THEN RScale(current_price, 2, 100)
                    ELSE CalculateAtr(daily_df)
             stop_loss == RSub(mas.ma_short, atr)
             target == RAdd(current_price, RMulInt(atr, 3))
         IN IF ~(mas.ma_cross /\ 40 < rsi /\ rsi < 70) THEN NoCandidate
            ELSE Candidate("MOMENTUM_SWING", current_price, stop_loss, target,
                     CalculateCompositeScores(daily_df, current_price, stop_loss, target,
                         Some(daily_df.recent_volume), volume_trend, FromInt(0),
                         Some(CalculateVolatilityPercentile(daily_df)),
                         sentiment_data, MIN_AVG_VOLUME))

\* scores['risk_score'] = max(85.0, scores['risk_score']).
HighRisk(scores) == [scores EXCEPT !.risk_score = RMax(FromInt(85), @)]

\* HighVolatilityBreakout.analyze.
HvbAnalyze(daily_df, sentiment_data) ==
    IF Empty(daily_df) \/ daily_df.rows < 60 THEN NoCandidate
    ELSE LET current_price == daily_df.close
             vol_percentile == CalculateVolatilityPercentile(daily_df)
             breaking_out == ~RLess(daily_df.high, RScale(daily_df.high_20d, 98, 100))
             avg_volume == daily_df.avg_volume
             recent_volume == daily_df.last3_volume
             volume_surge == RLess(RScale(avg_volume, 3, 2), recent_volume)
             atr == IF CalculateAtr(daily_df).n = 0 THEN RScale(current_price, 3, 100)
                    ELSE CalculateAtr(daily_df)
             stop_loss == RSub(current_price, RScale(atr, 5, 2))
             target == RAdd(current_price, RMulInt(atr, 5))
             breakout_pct == IF daily_df.high_20d.n > 0
                             THEN RMulInt(RDiv(RSub(daily_df.high, daily_df.high_20d),
                                               daily_df.high_20d), 100)
                             ELSE FromInt(0)
         IN IF vol_percentile < HVB_MIN_VOLATILITY_PERCENTILE THEN NoCandidate
            ELSE IF ~breaking_out \/ ~volume_surge THEN NoCandidate
            ELSE IF RLess(avg_volume, FromInt(MIN_AVG_VOLUME)) THEN NoCandidate
            ELSE Candidate("HVB", current_price, stop_loss, target,
                     HighRisk(CalculateCompositeScores(daily_df, current_price, stop_loss,
                         target, Some(recent_volume), volume_surge, breakout_pct,
                         Some(vol_percentile), sentiment_data, MIN_AVG_VOLUME)))

\* EarningsDriftStrategy.analyze: the polarity of the sentiment data is a
\* number, which never equals the string 'positive', so earnings_positive is
\* false and the strategy returns None before it prices a trade.
EarningsAnalyze(daily_df, sentiment_data) ==
    IF Empty(daily_df) \/ daily_df.rows < 20 THEN NoCandidate
    ELSE IF ~sentiment_data.given \/ ~sentiment_data.earnings_detected THEN NoCandidate
    ELSE NoCandidate

\* The analyze method of each strategy on one symbol's data.
Analyze(strategy, intraday_df, daily_df, sentiment_data) ==
    CASE strategy = "ORB" -> OrbAnalyze(intraday_df, daily_df, sentiment_data)
      [] strategy = "VWAP_PULLBACK" -> VwapAnalyze(intraday_df, daily_df, sentiment_data)
      [] strategy = "MOMENTUM_SWING" -> MomentumAnalyze(daily_df, sentiment_data)
      [] strategy = "HVB" -> HvbAnalyze(daily_df, sentiment_data)
      [] strategy = "EARNINGS_DRIFT" -> EarningsAnalyze(daily_df, sentiment_data)

\* ------------------------------------------------------------ market data

\* The price readings of a daily frame: a flat series, a rally, a slump, and
\* a pullback inside an uptrend.
PriceProfiles ==
    {[close |-> FromInt(100), ma_20 |-> FromInt(100), ma_50 |-> FromInt(100),
      close_5 |-> FromInt(100), close_10 |-> FromInt(100), rsi |-> 100,
      atr |-> FromInt(0), percentile |-> 0, recent_high |-> FromInt(100),
      high |-> FromInt(100), high_20d |-> FromInt(100)],
     [close |-> FromInt(120), ma_20 |-> FromInt(110), ma_50 |-> FromInt(100),
      close_5 |-> FromInt(100), close_10 |-> FromInt(100), rsi |-> 60,
      atr |-> FromInt(3), percentile |-> 92, recent_high |-> FromInt(120),
      high |-> FromInt(121), high_20d |-> FromInt(121)],
     [close |-> FromInt(80), ma_20 |-> FromInt(90), ma_50 |-> FromInt(100),
      close_5 |-> FromInt(100), close_10 |-> FromInt(100), rsi |-> 20,
      atr |-> FromInt(6), percentile |-> 95, recent_high |-> FromInt(100),
      high |-> FromInt(82), high_20d |-> FromInt(104)],
     [close |-> FromInt(100), ma_20 |-> FromInt(110), ma_50 |-> FromInt(105),
      close_5 |-> FromInt(108), close_10 |-> FromInt(112), rsi |-> 45,
      atr |-> FromInt(3), percentile |-> 70, recent_high |-> FromInt(115),
      high |-> FromInt(101), high_20d |-> FromInt(116)]}

\* The volume readings of a daily frame: no volume at all, thin, surging.
VolumeProfiles ==
    {[avg_volume |-> FromInt(0), last_volume |-> FromInt(0),
      recent_volume |-> FromInt(0), older_volume |-> FromInt(0),
      last3_volume |-> FromInt(0)],
     [avg_volume |-> FromInt(50000), last_volume |-> FromInt(30000),
      recent_volume |-> FromInt(40000), older_volume |-> FromInt(50000),
      last3_volume |-> FromInt(35000)],
     [avg_volume |-> FromInt(600000), last_volume |-> FromInt(1200000),
      recent_volume |-> FromInt(900000), older_volume |-> FromInt(500000),
      last3_volume |-> FromInt(1000000)]}

\* Daily frames: none, a short history of 10 rows, a history of 60 rows.
DailyFrames ==
    {NoFrame} \cup {[rows |-> rows] @@ p @@ v :
                      rows \in {10, 60}, p \in PriceProfiles, v \in VolumeProfiles}

\* Intraday frames: none, a breakout just above the opening range that sits
\* at VWAP, and a run far above the opening range.
IntradayFrames ==
    {NoFrame,
     [rows |-> 60, orb_high |-> FromInt(101), orb_low |-> FromInt(99),
      close |-> FromInt(102), vwap |-> FromInt(102), recent_volume |-> FromInt(800000)],
     [rows |-> 60, orb_high |-> FromInt(101), orb_low |-> FromInt(99),
      close |-> FromInt(108), vwap |-> FromInt(105), recent_volume |-> FromInt(800000)]}

\* Sentiment data: none, an empty dict, bearish earnings news, bullish news.
Sentiments ==
    {[given |-> FALSE],
     [given |-> TRUE, keys |-> {}, earnings_detected |-> FALSE],
     [given |-> TRUE, keys |-> {"polarity", "confidence"}, polarity |-> FromInt(-1),
      confidence |-> FromInt(1), earnings_detected |-> TRUE],
     [given |-> TRUE, keys |-> {"polarity", "confidence"}, polarity |-> FromInt(1),
      confidence |-> FromInt(1), earnings_detected |-> TRUE]}

\* The stop and target a caller passes with an entry price: a stop 0.5% away
\* with a target 0.2% away, and a stop 6% away with a target 20% away.
TradePlans == {[stop |-> 995, target |-> 1002], [stop |-> 940, target |-> 1200]}

\* ------------------------------------------------------------ state

Procs == {1, 2}

VARIABLES
    picks,              \* the picks table, in rowid order
    outcomes,           \* the outcomes table, in rowid order
    strategy_stats,     \* the strategy_stats table, by (strategy, regime)
    feature_penalties,  \* the feature_penalties table, by (name, value)
    strategy_weights,   \* LearningEngine.strategy_weights of each process
    now,                \* the wall clock, [day, minute]
    proc,               \* each process: idle, or inside the outcome loop
    scanResult,         \* what scan_market did, if it was the last operation
    applied,            \* what apply_learning_to_score did, if it was the last
    recorded,           \* history: the returns fed to each (strategy, regime)
    call                \* a scoring or strategy call: its data, then its result

vars == <<picks, outcomes, strategy_stats, feature_penalties, strategy_weights,
          now, proc, scanResult, applied, recorded, call>>

NoScan == [ran |-> FALSE]
NoCall == [called |-> FALSE]
NotCalled == [fn |-> "none"]

\* A ledger of n picks left open by earlier scans, one scan every 31 days,
\* the most recent first in timestamp order.
HistoricalPick(i, signal, regime) ==
    [pick_id |-> <<"A", -31 * i, 0>>, symbol |-> "A.NS",
     strategy |-> signal.strategy, timestamp |-> [day |-> -31 * i, minute |-> 0],
     conviction_score |-> signal.conviction_score,
     entry_price |-> signal.entry_price, stop_loss |-> signal.stop_loss,
     target_price |-> signal.target_price,
     position_size |-> Rat(TOTAL_BUDGET * MAX_RISK_PER_TRADE,
                           100 * Abs(signal.entry_price - signal.stop_loss)),
     market_regime |-> regime,
     features_json |-> MakeJsonSerializable(
         [index_confirmation |-> PyBool(TRUE)] @@ signal.features)]

\* Mostly HVB picks on thinly traded symbols, every fourth an ORB pick.
MixedLedger(n) ==
    [i \in 1..n |-> HistoricalPick(n + 1 - i,
                        IF (n + 1 - i) % 4 = 0 THEN OrbSignal ELSE HvbSignal, "bullish")]

\* Momentum picks of one regime only.
MomentumLedger(n) ==
    [i \in 1..n |-> HistoricalPick(n + 1 - i, MomentumSignal, "bullish")]

\* The pick counts just below and at the two learning thresholds.
PriorPickCounts ==
    {MIN_TRADES_BEFORE_LEARNING - 1, MIN_TRADES_BEFORE_LEARNING,
     CONSERVATIVE_LEARNING_THRESHOLD}

InitWith(ledger, calls) ==
    /\ picks = ledger
    /\ outcomes = << >>
    /\ strategy_stats = [k \in StatKeys |-> NoRow]
    /\ feature_penalties = [k \in PenaltyKeys |-> NoRow]
    /\ strategy_weights = [p \in Procs |-> InitialWeights]
    /\ now = [day |-> 0, minute |-> 0]
    /\ proc = [p \in Procs |-> [pc |-> "idle", pending |-> << >>]]
    /\ scanResult = NoScan
    /\ applied = NoCall
    /\ recorded = [k \in StatKeys |-> [sum |-> 0, count |-> 0]]
    /\ call \in calls

\* A fresh ledger (PickLedger._init_db on a new file) and fresh processes.
Init == InitWith(<< >>, {NotCalled})

\* A ledger with earlier picks, opened by fresh processes.
InitLearn == \E n \in PriorPickCounts : InitWith(MixedLedger(n), {NotCalled})

InitScenario ==
    \E n \in {MIN_TRADES_BEFORE_LEARNING, CONSERVATIVE_LEARNING_THRESHOLD} :
        InitWith(MomentumLedger(n), {NotCalled})

\* ------------------------------------------------------------ actions

\* A minute passes.
TickMinute ==
    /\ now.day + now.minute < MaxTicks
    /\ now' = [now EXCEPT !.minute = @ + 1]
    /\ scanResult' = NoScan
    /\ applied' = NoCall
    /\ UNCHANGED call
    /\ UNCHANGED <<picks, outcomes, strategy_stats, feature_penalties,
                   strategy_weights, proc, recorded>>

\* Midnight passes.
TickDay ==
    /\ now.day + now.minute < MaxTicks
    /\ now' = [day |-> now.day + 1, minute |-> 0]
    /\ scanResult' = NoScan
    /\ applied' = NoCall
    /\ UNCHANGED call
    /\ UNCHANGED <<picks, outcomes, strategy_stats, feature_penalties,
                   strategy_weights, proc, recorded>>

NewPicks(pickRows) == Cardinality({i \in DOMAIN pickRows : pickRows[i].timestamp.day >= 0})

\* Process p runs scan_market.
Scan(p) ==
    /\ proc[p].pc = "idle"
    /\ \E inputs \in ScanInputs, opts \in ScanOptions, regime \in {"bullish"} :
          \E r \in {ScanMarket(inputs, opts, regime, picks, outcomes, now,
                               [weights |-> strategy_weights[p],
                                penalties |-> feature_penalties])} :
             /\ NewPicks(r.picks) <= MaxNewPicks
             /\ picks' = r.picks
             /\ scanResult' = [ran |-> TRUE, halted |-> r.halted, check |-> r.check,
                               analysed |-> r.analysed, generated |-> r.top_picks,
                               returned |-> IF r.error THEN << >> ELSE r.top_picks,
                               error |-> r.error]
    /\ applied' = NoCall
    /\ UNCHANGED call
    /\ UNCHANGED <<outcomes, strategy_stats, feature_penalties, strategy_weights,
                   now, proc, recorded>>

\* Process p enters compute_outcomes_for_pending_picks and reads the pending
\* picks.
EvalStart(p) ==
    /\ proc[p].pc = "idle"
    /\ LET pending == GetPicksWithoutOutcomes(picks, outcomes)
       IN /\ pending # << >>
          /\ proc' = [proc EXCEPT ![p] = [pc |-> "evaluating", pending |-> pending]]
    /\ scanResult' = NoScan
    /\ applied' = NoCall
    /\ UNCHANGED call
    /\ UNCHANGED <<picks, outcomes, strategy_stats, feature_penalties,
                   strategy_weights, now, recorded>>

\* One turn of the loop of compute_outcomes_for_pending_picks in process p:
\* compute_outcome, save_outcome, update_from_outcome.
EvalStep(p, barSet, limit) ==
    /\ proc[p].pc = "evaluating"
    /\ Len(outcomes) < limit
    /\ \E bars \in barSet :
          LET pick == Head(proc[p].pending)
              outcome == ComputeOutcome(pick, bars)
              learned == UpdateFromOutcome(picks, strategy_stats, feature_penalties,
                                           strategy_weights[p], pick.pick_id, outcome)
              details == GetPickDetails(picks, pick.pick_id)
              key == <<details.strategy, details.market_regime>>
          IN /\ outcomes' = SaveOutcome(outcomes, pick.pick_id, outcome)
             /\ strategy_stats' = learned.stats
             /\ feature_penalties' = learned.penalties
             /\ strategy_weights' = [strategy_weights EXCEPT ![p] = learned.weights]
             /\ recorded' = IF details.exists
                            THEN [recorded EXCEPT ![key] =
                                    [sum |-> @.sum + outcome.final_return,
                                     count |-> @.count + 1]]
                            ELSE recorded
    /\ proc' = [proc EXCEPT ![p] =
                  IF Tail(proc[p].pending) = << >>
                  THEN [pc |-> "idle", pending |-> << >>]
                  ELSE [pc |-> "evaluating", pending |-> Tail(proc[p].pending)]]
    /\ scanResult' = NoScan
    /\ applied' = NoCall
    /\ UNCHANGED call
    /\ UNCHANGED <<picks, now>>

\* The picks _analyze_symbol hands to apply_learning_to_score.
ApplyInputs ==
    {AnalyzeSymbol(x[1], x[2], opts, "bullish", << >>, << >>,
                   [day |-> 0, minute |-> 0]) :
        x \in {<<"A.NS", Active("A.NS")>>, <<"C.NS", Active("C.NS")>>,
               <<"C.NS", Surging>>},
        opts \in ScanOptions}

\* Process p calls apply_learning_to_score on a candidate pick.
ApplyLearning(p) ==
    /\ proc[p].pc = "idle"
    /\ \E pick \in ApplyInputs :
          applied' = [called |-> TRUE, total_picks |-> GetTotalPicksCount(picks),
                      weights |-> strategy_weights[p],
                      penalties |-> feature_penalties,
                      pick |-> pick,
                      result |-> ApplyLearningToScore(pick, "bullish",
                                     GetTotalPicksCount(picks), strategy_weights[p],
                                     feature_penalties)]
    /\ scanResult' = NoScan
    /\ UNCHANGED call
    /\ UNCHANGED <<picks, outcomes, strategy_stats, feature_penalties,
                   strategy_weights, now, proc, recorded>>

\* A caller computes the composite scores of the frame for a trade plan.
ScoreCall ==
    /\ call.fn = "none"
    /\ \E plan \in TradePlans, volume_given \in BOOLEAN, volume_surge \in BOOLEAN,
          breakout_pct \in {0, 5},
          volatility_percentile \in {None, Some(20), Some(70), Some(95)} :
          \E entry_price \in {IF Empty(call.daily_df) THEN FromInt(100)
                              ELSE call.daily_df.close},
             current_volume \in {IF volume_given /\ ~Empty(call.daily_df)
                                 THEN Some(call.daily_df.last_volume) ELSE None} :
             call' = [fn |-> "calculate_composite_scores",
                      intraday_df |-> call.intraday_df,
                      daily_df |-> call.daily_df,
                      sentiment_data |-> call.sentiment_data,
                      current_volume |-> current_volume,
                      volatility_percentile |-> volatility_percentile,
                      result |-> CalculateCompositeScores(call.daily_df, entry_price,
                                     RScale(entry_price, plan.stop, 1000),
                                     RScale(entry_price, plan.target, 1000),
                                     current_volume, volume_surge, FromInt(breakout_pct),
                                     volatility_percentile, call.sentiment_data,
                                     MIN_AVG_VOLUME)]
    /\ UNCHANGED <<picks, outcomes, strategy_stats, feature_penalties,
                   strategy_weights, now, proc, scanResult, applied, recorded>>

\* A strategy analyses the frames.
StrategyCall ==
    /\ call.fn = "none"
    /\ \E strategy \in Strategies :
          call' = [fn |-> strategy,
                   intraday_df |-> call.intraday_df,
                   daily_df |-> call.daily_df,
                   sentiment_data |-> call.sentiment_data,
                   result |-> Analyze(strategy, call.intraday_df, call.daily_df,
                                      call.sentiment_data)]
    /\ UNCHANGED <<picks, outcomes, strategy_stats, feature_penalties,
                   strategy_weights, now, proc, scanResult, applied, recorded>>


\* Process p is started anew: ScannerEngine.__init__ builds a LearningEngine,
\* whose __init__ reads nothing from the ledger. The call keeps the weights
\* the old instance held and the strategy_stats table at that moment.
Restart(p) ==
    /\ strategy_weights' = [strategy_weights EXCEPT ![p] = InitialWeights]
    /\ proc' = [proc EXCEPT ![p] = [pc |-> "idle", pending |-> << >>]]
    /\ call' = [fn |-> "LearningEngine", proc |-> p,
                dropped |-> strategy_weights[p], stats |-> strategy_stats]
    /\ scanResult' = NoScan
    /\ applied' = NoCall
    /\ UNCHANGED <<picks, outcomes, strategy_stats, feature_penalties, now, recorded>>

\* The volatility percentiles a can_trade caller passes: none, calm, spiking.
GatePercentiles == {-1, 50, 96}

\* A caller invokes RiskManager.can_trade on the ledger as it is; the call
\* keeps the verdict of each of the three checks next to the result.
CanTradeCall ==
    /\ \E volatility_percentile \in GatePercentiles :
          call' = [fn |-> "can_trade",
                   daily_loss |-> CheckDailyLossThreshold(picks, outcomes, now).allowed,
                   positions |-> CheckConcurrentPositions(picks, outcomes, now).allowed,
                   no_trade |-> CheckNoTradeConditions(volatility_percentile).allowed,
                   result |-> CanTrade(picks, outcomes, now, volatility_percentile)]
    /\ UNCHANGED <<picks, outcomes, strategy_stats, feature_penalties,
                   strategy_weights, now, proc, scanResult, applied, recorded>>

\* One _recalculate_weights pass in conservative mode moves the weight of a
\* strategy whose expectancy is above 1.0 (up) or below -0.5 (down); the call
\* holds the weight as a double.
DriftStart == [fn |-> "_recalculate_weights", weight |-> FloatOne, steps |-> 0]

RaiseWeight ==
    /\ call.fn = "_recalculate_weights"
    /\ call.steps < MaxDriftSteps
    /\ call' = [call EXCEPT !.weight = FloatRaise(@, FloatStepConservative),
                            !.steps = @ + 1]
    /\ UNCHANGED <<picks, outcomes, strategy_stats, feature_penalties,
                   strategy_weights, now, proc, scanResult, applied, recorded>>

LowerWeight ==
    /\ call.fn = "_recalculate_weights"
    /\ call.steps < MaxDriftSteps
    /\ call' = [call EXCEPT !.weight = FloatLower(@, FloatStepConservative),
                            !.steps = @ + 1]
    /\ UNCHANGED <<picks, outcomes, strategy_stats, feature_penalties,
                   strategy_weights, now, proc, scanResult, applied, recorded>>

\* apply_learning_to_score on a pick of that strategy that matches no
\* penalty pattern: whether the weight term is more than half a point, and
\* whether the trail gets the strategy-weight entry.
ApplyWeight ==
    /\ call.fn = "_recalculate_weights"
    /\ call' = [fn |-> "apply_learning_to_score", weight |-> call.weight,
                steps |-> call.steps,
                above_half |-> FloatAdjustmentAboveHalf(call.weight),
                learning_adjustments |->
                    IF FloatAdjustmentAboveOne(call.weight)
                    THEN <<"strategy_weight">> ELSE << >>]
    /\ UNCHANGED <<picks, outcomes, strategy_stats, feature_penalties,
                   strategy_weights, now, proc, scanResult, applied, recorded>>

\* The verdicts of the two portfolio-wide checks inside one can_trade call.
PortfolioGates(pickRows, outcomeRows, clock) ==
    [daily_loss |-> CheckDailyLossThreshold(pickRows, outcomeRows, clock).allowed,
     positions |-> CheckConcurrentPositions(pickRows, outcomeRows, clock).allowed]

\* Process p enters scan_market: the risk check on the ledger as it is now,
\* then either the halt or the start of the symbol loop. `gates` keeps the
\* portfolio verdicts of every can_trade call of the scan.
ScanBegin(p) ==
    /\ proc[p].pc = "idle"
    /\ NewPicks(picks) + TOP_N_PICKS <= MaxNewPicks
    /\ \E inputs \in ScanInputs, opts \in ScanOptions :
          IF ~CanTrade(picks, outcomes, now, -1).allowed
          THEN /\ scanResult' = [ran |-> TRUE, halted |-> TRUE,
                                 check |-> CanTrade(picks, outcomes, now, -1).check,
                                 analysed |-> 0, generated |-> << >>,
                                 returned |-> << >>, error |-> FALSE]
               /\ UNCHANGED proc
          ELSE /\ scanResult' = NoScan
               /\ proc' = [proc EXCEPT ![p] =
                             [pc |-> "scanning", pending |-> << >>, i |-> 1,
                              cands |-> << >>, hvb_count |-> 0,
                              inputs |-> inputs, opts |-> opts,
                              gates |-> <<PortfolioGates(picks, outcomes, now)>>]]
    /\ applied' = NoCall
    /\ UNCHANGED call
    /\ UNCHANGED <<picks, outcomes, strategy_stats, feature_penalties,
                   strategy_weights, now, recorded>>

\* One turn of the symbol loop of scan_market in process p: _analyze_symbol
\* reads the ledger as it is at that moment (its can_trade call opens its own
\* connections), then the learning step, the floor and the HVB cap.
ScanSymbol(p) ==
    /\ proc[p].pc = "scanning"
    /\ proc[p].i <= Len(NIFTY_SYMBOLS)
    /\ \E symbol \in {NIFTY_SYMBOLS[proc[p].i]} :
          \E pick \in {Rescored(AnalyzeSymbol(symbol, proc[p].inputs[symbol],
                                              proc[p].opts, "bullish", picks,
                                              outcomes, now),
                                "bullish", picks,
                                [weights |-> strategy_weights[p],
                                 penalties |-> feature_penalties])} :
             proc' = [proc EXCEPT ![p] =
                        [@ EXCEPT
                           !.i = @ + 1,
                           !.cands = IF Kept(pick, proc[p].hvb_count)
                                     THEN Append(@, pick) ELSE @,
                           !.hvb_count = IF Kept(pick, proc[p].hvb_count)
                                            /\ pick.strategy = "HVB"
                                         THEN @ + 1 ELSE @,
                           !.gates = IF proc[p].inputs[symbol].filtered THEN @
                                     ELSE Append(@, PortfolioGates(picks, outcomes, now))]]
    /\ scanResult' = NoScan
    /\ applied' = NoCall
    /\ UNCHANGED call
    /\ UNCHANGED <<picks, outcomes, strategy_stats, feature_penalties,
                   strategy_weights, now, recorded>>

\* The end of scan_market in process p: the sort, the cut and the save loop.
ScanEnd(p) ==
    /\ proc[p].pc = "scanning"
    /\ proc[p].i > Len(NIFTY_SYMBOLS)
    /\ \E r \in {SaveTopPicks(WithRegime(TopPicks(proc[p].cands, proc[p].opts),
                                          "bullish"), picks)} :
          /\ picks' = r.picks
          /\ scanResult' = [ran |-> TRUE, halted |-> FALSE, check |-> "none",
                            analysed |-> r.analysed, generated |-> r.top_picks,
                            returned |-> IF r.error THEN << >> ELSE r.top_picks,
                            error |-> r.error]
    /\ proc' = [proc EXCEPT ![p] = [pc |-> "idle", pending |-> << >>]]
    /\ applied' = NoCall
    /\ UNCHANGED call
    /\ UNCHANGED <<outcomes, strategy_stats, feature_penalties, strategy_weights,
                   now, recorded>>

\* Process 1 runs scan_market on a ranked-scan market; the call keeps the
\* picks of the symbol loop and its candidates next to what was returned.
RankScan ==
    /\ proc[1].pc = "idle"
    /\ \E kinds \in RankInputs, opts \in RankOptions :
          \E inputs \in {[s \in SymbolSet |-> RankSnapshot(s, kinds[s])]},
             learn \in {[weights |-> strategy_weights[1],
                         penalties |-> feature_penalties]} :
             \E r \in {ScanMarket(inputs, opts, "bullish", picks, outcomes, now, learn)} :
                /\ NewPicks(r.picks) <= MaxNewPicks
                /\ picks' = r.picks
                /\ scanResult' = [ran |-> TRUE, halted |-> r.halted, check |-> r.check,
                                  analysed |-> r.analysed, generated |-> r.top_picks,
                                  returned |-> IF r.error THEN << >> ELSE r.top_picks,
                                  error |-> r.error]
                /\ call' = [fn |-> "scan_market", opts |-> opts,
                            completed |-> ~r.halted /\ ~r.error,
                            symbol_picks |-> SymbolPicks(inputs, opts, "bullish", picks,
                                                         outcomes, now, learn),
                            candidates |-> Candidates(1, << >>, 0, inputs, opts, "bullish",
                                                      picks, outcomes, now, learn),
                            result |-> IF r.error THEN << >> ELSE r.top_picks]
    /\ UNCHANGED <<outcomes, strategy_stats, feature_penalties, strategy_weights,
                   now, proc, applied, recorded>>

\* The picks and pick ids a direct caller of the ledger passes in.
LedgerPickIds == {PickId(s, [day |-> 0, minute |-> 0]) : s \in {"A.NS", "B.NS"}}
LedgerPicks == {[pick EXCEPT !.pick_id = id] : pick \in ApplyInputs, id \in LedgerPickIds}
LedgerOutcomes == {ComputeOutcome(OrbSignal, bars) : bars \in MarketBars}

\* A caller invokes PickLedger.save_pick; `raised` is whether the call ended
\* in an exception.
SavePickCall ==
    /\ \E pick \in LedgerPicks :
          \E r \in {SavePick(picks, pick)} :
             /\ Len(r.picks) <= MaxLedgerRows
             /\ picks' = r.picks
             /\ call' = [fn |-> "save_pick", pick_id |-> pick.pick_id,
                         taken |-> PickIdTaken(picks, pick.pick_id),
                         raised |-> ~r.ok, picks_before |-> picks]
    /\ UNCHANGED <<outcomes, strategy_stats, feature_penalties, strategy_weights,
                   now, proc, scanResult, applied, recorded>>

\* A caller invokes PickLedger.save_outcome: the INSERT and the commit go
\* through whatever the pick_id, so the call never raises.
SaveOutcomeCall ==
    /\ Len(outcomes) < MaxLedgerRows
    /\ \E pick_id \in LedgerPickIds, outcome \in LedgerOutcomes :
          /\ outcomes' = SaveOutcome(outcomes, pick_id, outcome)
          /\ call' = [fn |-> "save_outcome", pick_id |-> pick_id,
                      known |-> PickIdTaken(picks, pick_id),
                      raised |-> FALSE, outcomes_before |-> outcomes]
    /\ UNCHANGED <<picks, strategy_stats, feature_penalties, strategy_weights,
                   now, proc, scanResult, applied, recorded>>

\* ------------------------------------------------------------ specifications

\* One ledger and two processes: process 1 (the scheduler) scans and
\* evaluates, process 2 (an `outcomes` command run) evaluates.
Next ==
    \/ TickMinute
    \/ TickDay
    \/ Scan(1)
    \/ \E p \in Procs : EvalStart(p)
    \/ \E p \in Procs : EvalStep(p, MarketBars, MaxOutcomes)

Spec == Init /\ [][Next]_vars

\* One process evaluating a ledger of earlier picks and scoring candidates.
NextLearn ==
    \/ EvalStart(1)
    \/ EvalStep(1, LearnBars, MaxLearnOutcomes)
    \/ ApplyLearning(1)

SpecLearn == InitLearn /\ [][NextLearn]_vars

\* The expectancy scenario: one process evaluating momentum picks.
NextScenario ==
    \/ EvalStart(1)
    \/ EvalStep(1, ScenarioBars, MaxScenarioTrades)

SpecScenario == InitScenario /\ [][NextScenario]_vars

\* A ledger two picks short of a learning threshold: process 1 keeps
\* scanning while process 2 evaluates, so the pick count crosses the threshold.
InitGrow ==
    \E n \in {MIN_TRADES_BEFORE_LEARNING - 2, CONSERVATIVE_LEARNING_THRESHOLD - 2} :
        InitWith(MixedLedger(n), {NotCalled})

NextGrow ==
    \/ TickMinute
    \/ Scan(1)
    \/ EvalStart(2)
    \/ EvalStep(2, MarketBars, MaxOutcomes)

SpecGrow == InitGrow /\ [][NextGrow]_vars

\* The scoring engine and the strategy generators on one symbol's data.
InitStrategy ==
    InitWith(<< >>, {[fn |-> "none", intraday_df |-> i, daily_df |-> d,
                      sentiment_data |-> s] :
                        i \in IntradayFrames, d \in DailyFrames, s \in Sentiments})

NextStrategy ==
    \/ ScoreCall
    \/ StrategyCall

SpecStrategy == InitStrategy /\ [][NextStrategy]_vars

\* A fresh ledger and a caller of its two write methods.
NextLedger ==
    \/ SavePickCall
    \/ SaveOutcomeCall

SpecLedger == Init /\ [][NextLedger]_vars

\* A fresh ledger and one process scanning markets in either mode.
NextRank ==
    \/ TickMinute
    \/ RankScan

SpecRank == Init /\ [][NextRank]_vars

\* One ledger and two processes whose ledger accesses interleave: process 1
\* scans symbol by symbol while process 2 evaluates pending picks.
NextInterleaved ==
    \/ TickMinute
    \/ ScanBegin(1)
    \/ ScanSymbol(1)
    \/ ScanEnd(1)
    \/ EvalStart(2)
    \/ EvalStep(2, MarketBars, MaxOutcomes)

SpecInterleaved == Init /\ [][NextInterleaved]_vars

\* One process evaluating a ledger of earlier picks and scoring candidates,
\* restarted at any moment.
NextRestart ==
    \/ EvalStart(1)
    \/ EvalStep(1, LearnBars, MaxRestartOutcomes)
    \/ ApplyLearning(1)
    \/ Restart(1)

InitRestart == InitWith(MixedLedger(MIN_TRADES_BEFORE_LEARNING), {NotCalled})

SpecRestart == InitRestart /\ [][NextRestart]_vars

\* One process scanning, one evaluating, and a caller of the risk gate.
NextGate ==
    \/ TickMinute
    \/ Scan(1)
    \/ EvalStart(2)
    \/ EvalStep(2, MarketBars, MaxOutcomes)
    \/ CanTradeCall

SpecGate == Init /\ [][NextGate]_vars

\* The weight of one strategy over a run of recalculations, in doubles.
InitDrift == InitWith(<< >>, {DriftStart})

NextDrift ==
    \/ RaiseWeight
    \/ LowerWeight
    \/ ApplyWeight

SpecDrift == InitDrift /\ [][NextDrift]_vars

\* One process evaluating a ledger of earlier picks on bars of every
\* classification: success, failure, both and neither.
NextClassify ==
    \/ EvalStart(1)
    \/ EvalStep(1, ClassifyBars, MaxClassifyOutcomes)

SpecClassify == InitLearn /\ [][NextClassify]_vars

\* Two evaluators on a ledger of earlier picks: process 1 finds no price
\* data for any pick, process 2 finds bars.
NextOutage ==
    \/ EvalStart(1)
    \/ EvalStep(1, {NoData}, MaxOutageOutcomes)
    \/ EvalStart(2)
    \/ EvalStep(2, LearnBars, MaxOutageOutcomes)

SpecOutage == InitLearn /\ [][NextOutage]_vars

\* ------------------------------------------------------------ properties

\* C1: the stored avg_return of every (strategy, regime) row is the
\* arithmetic mean of all the returns recorded for the pair, and its
\* total_picks is the number of update_strategy_performance calls; a pair
\* never updated has no row.
C1_RunningAverageIsMean ==
    \A k \in StatKeys :
        IF recorded[k].count = 0 THEN ~strategy_stats[k].exists
        ELSE /\ strategy_stats[k].exists
             /\ strategy_stats[k].total_picks = recorded[k].count
             /\ strategy_stats[k].avg_return = Rat(recorded[k].sum, recorded[k].count)

\* A pair updated at least three times whose mean is not a whole number.
C1_Witness ==
    \E k \in StatKeys : recorded[k].count >= 3 /\ strategy_stats[k].avg_return.d > 1

\* penalty = min(30, (failures / occurrences) * 50) of a stored row.
PenaltyFromCounts(row) == RMin(FromInt(30), Rat(row.failures * 50, row.occurrences))

\* C2: the stored penalty_score of every feature_penalties row equals
\* min(30, failures / occurrences * 50) of the row's stored counts, also
\* right after the call that creates the row.
C2_PenaltyMatchesCounts ==
    \A k \in PenaltyKeys :
        feature_penalties[k].exists =>
            feature_penalties[k].penalty_score = PenaltyFromCounts(feature_penalties[k])

\* C3: with fewer than MIN_TRADES_BEFORE_LEARNING picks in the ledger,
\* apply_learning_to_score returns the pick with its conviction unchanged.
C3_BaselineLeavesConviction ==
    (applied.called /\ applied.total_picks < MIN_TRADES_BEFORE_LEARNING) =>
        applied.result.conviction_score = applied.pick.conviction_score

\* A baseline call on an HVB pick of a thinly traded symbol while the
\* low_liquidity_hvb penalty is stored and positive.
C3_Witness ==
    /\ applied.called
    /\ applied.total_picks < MIN_TRADES_BEFORE_LEARNING
    /\ applied.pick.strategy = "HVB"
    /\ ApplicablePenalties(applied.pick, applied.penalties) # << >>

\* C4: check_daily_loss_threshold refuses when today's realised losses equal
\* TOTAL_BUDGET * MAX_DAILY_LOSS_PCT exactly, and allows any total strictly
\* below it.
C4_DailyLossBoundary ==
    LET total == TotalLoss(picks, outcomes, now)
        check == CheckDailyLossThreshold(picks, outcomes, now)
    IN /\ total = MaxDailyLoss => ~check.allowed
       /\ RLess(total, MaxDailyLoss) => check.allowed

\* Today's losses are exactly the threshold.
C4_Witness ==
    /\ TotalLoss(picks, outcomes, now) = MaxDailyLoss
    /\ \E j \in DOMAIN outcomes : outcomes[j].final_return < 0

\* Whether one of the two portfolio gates fails on the current ledger.
PortfolioGateFails ==
    \/ ~CheckDailyLossThreshold(picks, outcomes, now).allowed
    \/ ~CheckConcurrentPositions(picks, outcomes, now).allowed

\* C5: a scan_market call that starts while the daily-loss gate or the
\* concurrent-position gate fails returns an empty list, analyses no symbol
\* and writes no pick.
C5_GateFailureHaltsScan ==
    [][(scanResult'.ran /\ PortfolioGateFails) =>
          /\ scanResult'.returned = << >>
          /\ scanResult'.analysed = 0
          /\ picks' = picks]_vars

\* A scan halted by the position gate, on a market where every symbol fires.
C5_Witness ==
    /\ scanResult.ran
    /\ scanResult.halted
    /\ scanResult.check = "concurrent_positions"

\* C6: the open picks still inside their active window never number more
\* than MAX_CONCURRENT_POSITIONS.
C6_OpenPicksWithinCap ==
    ActiveCount(picks, outcomes, now) <= MAX_CONCURRENT_POSITIONS

\* The outcome rows of a pick.
OutcomesOf(pick_id) == {j \in DOMAIN outcomes : outcomes[j].pick_id = pick_id}

\* C7: every pick has at most one outcome row, also with two evaluators
\* interleaved.
C7_AtMostOneOutcomePerPick ==
    \A i \in DOMAIN picks : Cardinality(OutcomesOf(picks[i].pick_id)) <= 1

\* C8: no pick a scan generates carries an identifier that a pick of the
\* ledger already uses.
C8_GeneratedIdsAreFresh ==
    [][scanResult'.ran =>
          \A i \in DOMAIN scanResult'.generated :
              ~PickIdTaken(picks, scanResult'.generated[i].pick_id)]_vars

\* The strategy and regime of the expectancy scenario.
ScenarioKey == <<"MOMENTUM_SWING", "bullish">>

\* Scenario C: ten outcomes of one strategy in one regime, three wins of +8%
\* and seven losses of -3%.
ScenarioC ==
    /\ Len(outcomes) = 10
    /\ Cardinality({j \in DOMAIN outcomes : outcomes[j].final_return = 8}) = 3
    /\ Cardinality({j \in DOMAIN outcomes : outcomes[j].final_return = -3}) = 7
    /\ recorded[ScenarioKey].count = 10

\* C9 (as amended): when the tenth outcome completes scenario C, the
\* expectancy is win_rate times the mean return of all ten trades,
\* 0.3 * 0.3 = 0.09, which is not above 1.0, and that recalculation leaves
\* the strategy's weight as it was.
C9_ScenarioExpectancy ==
    [][ScenarioC' =>
          /\ Expectancy(strategy_stats'[ScenarioKey]) = Rat(9, 100)
          /\ strategy_weights'[1]["MOMENTUM_SWING"] = strategy_weights[1]["MOMENTUM_SWING"]]_vars

\* Scenario C completed: the row holds ten trades, three wins, mean 0.3.
C9_Witness ==
    /\ ScenarioC
    /\ strategy_stats[ScenarioKey].successful_picks = 3
    /\ strategy_stats[ScenarioKey].avg_return = Rat(3, 10)

\* C9 (as stated): when the tenth outcome completes scenario C, the
\* expectancy is 0.3 * 8 = 2.4 > 1.0 and the weight has gone up by the
\* active step, capped at 1.5.
C9_ScenarioAsStated ==
    [][ScenarioC' =>
          /\ Expectancy(strategy_stats'[ScenarioKey]) = Rat(24, 10)
          /\ strategy_weights'[1]["MOMENTUM_SWING"] =
                Min(150, strategy_weights[1]["MOMENTUM_SWING"]
                         + Adjustment(GetLearningMode(GetTotalPicksCount(picks))))]_vars

WeightsInRange ==
    \A p \in Procs : \A s \in WeightedStrategies :
        50 <= strategy_weights[p][s] /\ strategy_weights[p][s] <= 150

\* One update_from_outcome call of process p moves the weight of strategy s
\* only as the expectancy of the (s, regime) row it has just written allows.
WeightStep(p, s) ==
    LET regime == IF proc[p].pending = << >> THEN "bullish"
                  ELSE GetPickDetails(picks, Head(proc[p].pending).pick_id).market_regime
        perf == strategy_stats'[<<s, regime>>]
        step == Adjustment(GetLearningMode(GetTotalPicksCount(picks)))
        old == strategy_weights[p][s]
        new == strategy_weights'[p][s]
    IN /\ new > old => /\ perf.exists
                       /\ RLess(FromInt(1), Expectancy(perf))
                       /\ new = Min(150, old + step)
       /\ new < old => /\ perf.exists
                       /\ RLess(Expectancy(perf), Rat(-1, 2))
                       /\ new = Max(50, old - step)
       /\ (perf.exists /\ ~RLess(FromInt(1), Expectancy(perf))
                       /\ ~RLess(Expectancy(perf), Rat(-1, 2))) => new = old

\* C10: every weight multiplier stays within [0.5, 1.5]; one recalculation
\* raises a weight by the active step (up to the cap) only when the
\* expectancy is above 1.0, lowers it by that step (down to the floor) only
\* when the expectancy is below -0.5, and otherwise leaves it unchanged.
C10_WeightsBoundedAndStepped ==
    /\ []WeightsInRange
    /\ [][\A p \in Procs : \A s \in WeightedStrategies : WeightStep(p, s)]_vars

\* A weight that the cap has stopped at 1.5.
C10_Witness ==
    \E s \in WeightedStrategies : strategy_weights[1][s] = 150

\* The learning mode the engine reports on a ledger.
ModeOfLedger(pickRows) == GetLearningMode(GetTotalPicksCount(pickRows))

\* baseline < conservative < full.
ModeRank(mode) ==
    CASE mode = "baseline" -> 0 [] mode = "conservative" -> 1 [] mode = "full" -> 2

\* C11: the learning mode is determined by the number of pick rows alone
\* (baseline below MIN_TRADES_BEFORE_LEARNING, conservative below
\* CONSERVATIVE_LEARNING_THRESHOLD, full otherwise), and no ledger operation
\* ever moves it back to a lower mode.
C11_ModeMonotonic ==
    /\ [](ModeOfLedger(picks) =
             IF Len(picks) < MIN_TRADES_BEFORE_LEARNING THEN "baseline"
             ELSE IF Len(picks) < CONSERVATIVE_LEARNING_THRESHOLD THEN "conservative"
             ELSE "full")
    /\ [][ModeRank(ModeOfLedger(picks')) >= ModeRank(ModeOfLedger(picks))]_vars

\* A scan has just taken the ledger from conservative to full, with outcomes
\* already recorded.
C11_Witness ==
    /\ scanResult.ran
    /\ Len(scanResult.returned) > 0
    /\ Len(picks) >= CONSERVATIVE_LEARNING_THRESHOLD
    /\ Len(picks) - Len(scanResult.returned) < CONSERVATIVE_LEARNING_THRESHOLD
    /\ Len(outcomes) > 0

\* The feature patterns a candidate matches, as apply_learning_to_score
\* tests them.
MatchedPatterns(pick) ==
    {k \in PenaltyKeys :
        \/ /\ k[1] = "low_liquidity_hvb"
           /\ pick.strategy = "HVB"
           /\ Has(pick.features, "avg_volume")
           /\ pick.features["avg_volume"].val * 2 < MIN_AVG_VOLUME * 3
        \/ /\ k[1] = "gap_no_volume"
           /\ Has(pick.features, "breakout_pct")
           /\ NotGetDefaultTrue(pick.features, "volume_surge")
           /\ pick.features["breakout_pct"].val > 3
        \/ /\ k[1] = "far_from_vwap"
           /\ Has(pick.features, "distance_from_vwap_pct")
           /\ pick.features["distance_from_vwap_pct"].val > 2}

\* original + (weight - 1.0) * 20 - the stored penalties of the matched
\* patterns, before the clamp.
UnclampedConviction(pick, weights, penalties) ==
    RSub(RAdd(pick.conviction_score,
              Rat((WeightOf(weights, pick.strategy) - 100) * 20, 100)),
         SumRat(MatchedPatterns(pick),
                [k \in PenaltyKeys |-> IF penalties[k].exists
                                       THEN penalties[k].penalty_score
                                       ELSE FromInt(0)]))

InRange(x) == ~RLess(x, FromInt(0)) /\ ~RLess(FromInt(100), x)

\* C13: the seven dimension scores and the composite conviction and risk
\* scores of calculate_composite_scores, and the conviction and risk scores
\* of every candidate a strategy returns, are within [0, 100].
C13_ScoresInRange ==
    /\ call.fn = "calculate_composite_scores" =>
          /\ \A k \in DOMAIN call.result.dimension_scores :
                InRange(call.result.dimension_scores[k])
          /\ InRange(call.result.conviction_score)
          /\ InRange(call.result.risk_score)
    /\ (call.fn \in Strategies /\ call.result.exists) =>
          /\ InRange(call.result.conviction_score)
          /\ InRange(call.result.risk_score)

\* The composite scores of a flat price series without volume, with no
\* sentiment data, no volatility percentile and no current volume passed.
C13_Witness ==
    /\ call.fn = "calculate_composite_scores"
    /\ call.daily_df.rows = 60
    /\ call.daily_df.atr = FromInt(0)
    /\ call.daily_df.avg_volume = FromInt(0)
    /\ ~call.sentiment_data.given
    /\ ~call.volatility_percentile.given
    /\ ~call.current_volume.given

\* C14: every candidate a strategy returns has stop_loss < entry_price <
\* target_price.
C14_StopBelowEntryBelowTarget ==
    (call.fn \in Strategies /\ call.result.exists) =>
        /\ RLess(call.result.stop_loss, call.result.entry_price)
        /\ RLess(call.result.entry_price, call.result.target_price)

RECURSIVE PyEq(_, _)
\* Python's == on two feature values: True == 1, while 'True' is equal to
\* neither True nor 1.
PyEq(a, b) ==
    IF a.type \in {"bool", "npbool", "num"} /\ b.type \in {"bool", "npbool", "num"}
    THEN a.val = b.val
    ELSE IF a.type = "str" /\ b.type = "str" THEN a.val = b.val
    ELSE IF a.type = "map" /\ b.type = "map"
    THEN /\ DOMAIN a.val = DOMAIN b.val
         /\ \A k \in DOMAIN a.val : PyEq(a.val[k], b.val[k])
    ELSE FALSE

\* C15: every pick a scan has saved is read back from the ledger with the
\* strategy, the conviction score and the prices it was saved with, and with
\* a features_json whose decoded value equals the features mapping saved.
C15_RoundTrip ==
    [][(scanResult'.ran /\ ~scanResult'.error) =>
          \A i \in DOMAIN scanResult'.returned :
              \E pick \in {scanResult'.returned[i]} :
              \E details \in {GetPickDetails(picks', pick.pick_id)} :
                 /\ details.exists
                 /\ details.strategy = pick.strategy
                 /\ details.conviction_score = pick.conviction_score
                 /\ \E j \in DOMAIN picks' :
                       /\ picks'[j].pick_id = pick.pick_id
                       /\ picks'[j].entry_price = pick.entry_price
                       /\ picks'[j].stop_loss = pick.stop_loss
                       /\ picks'[j].target_price = pick.target_price
                 /\ PyEq(PyMap(details.features_json), PyMap(pick.features))]_vars

\* C16: an outcome row is written for a pick only when the pick is at least
\* as old as the holding horizon of its strategy (1 day for ORB and
\* VWAP_PULLBACK, 10 days for the others).
C16_OutcomeAfterHorizon ==
    [][\A j \in DOMAIN outcomes' :
          j > Len(outcomes) =>
             \A i \in DOMAIN picks :
                picks[i].pick_id = outcomes'[j].pick_id =>
                   DaysBetween(picks[i].timestamp, now) >= HorizonDays(picks[i].strategy)]_vars

\* C17: a save_outcome call for a pick_id with no pick row raises and leaves
\* the outcomes table as it was, and a save_pick call with a pick_id already
\* present raises and leaves the picks table as it was.
C17_IntegrityViolationsFatal ==
    /\ (call.fn = "save_outcome" /\ ~call.known) =>
           (call.raised /\ outcomes = call.outcomes_before)
    /\ (call.fn = "save_pick" /\ call.taken) =>
           (call.raised /\ picks = call.picks_before)

\* What scan_market returns when it gets past the risk check and no symbol
\* yields a candidate.
ReturnedByEmptyScan ==
    LET quiet == [s \in SymbolSet |-> Quiet]
        opts == CHOOSE o \in ScanOptions : TRUE
    IN ScanMarket(quiet, opts, "bullish", << >>, << >>, [day |-> 0, minute |-> 0],
                  [weights |-> InitialWeights,
                   penalties |-> [k \in PenaltyKeys |-> NoRow]]).top_picks

\* C18: what scan_market returns after a risk-gate halt can be told from
\* what it returns after a scan that found no candidate.
C18_HaltDistinguishable ==
    (scanResult.ran /\ scanResult.halted) =>
        scanResult.returned # ReturnedByEmptyScan

PennyPicks(s) == SelectSeq(s, LAMBDA p : p.is_penny_stock)
StandardPicks(s) == SelectSeq(s, LAMBDA p : ~p.is_penny_stock)
Listed(s, pick) == \E i \in DOMAIN s : s[i].pick_id = pick.pick_id

\* C19: what a penny-stock-mode scan returns is made of candidates of the
\* scan, at most TOP_N_PICKS of them: first the penny-flagged ones, at most
\* PENNY_STOCK_MAX_PICKS, by descending conviction and none of lower
\* conviction than a penny-flagged candidate left out; then standard
\* candidates, none left out while the list is short of TOP_N_PICKS.
C19_PennyFirstThenBackfill ==
    (call.fn = "scan_market" /\ call.completed /\ call.opts.enable_penny_stock) =>
       LET res == call.result
           cands == call.candidates
       IN /\ Len(res) <= TOP_N_PICKS
          /\ Len(PennyPicks(res)) <= PENNY_STOCK_MAX_PICKS
          /\ \A i \in DOMAIN res : Listed(cands, res[i])
          /\ \A i, j \in DOMAIN res :
                i < j =>
                   /\ (res[j].is_penny_stock => res[i].is_penny_stock)
                   /\ (res[j].is_penny_stock =>
                          ~RLess(res[i].conviction_score, res[j].conviction_score))
          /\ \A k \in DOMAIN cands :
                (cands[k].is_penny_stock /\ ~Listed(res, cands[k])) =>
                   /\ Len(PennyPicks(res)) = PENNY_STOCK_MAX_PICKS
                   /\ \A i \in DOMAIN res :
                         res[i].is_penny_stock =>
                            ~RLess(res[i].conviction_score, cands[k].conviction_score)
          /\ \A k \in DOMAIN cands :
                (~cands[k].is_penny_stock /\ ~Listed(res, cands[k])) =>
                   Len(res) = TOP_N_PICKS

\* A penny-stock-mode scan with more penny-flagged candidates than the
\* limit returned the limit's worth of them.
C19_Witness ==
    /\ call.fn = "scan_market" /\ call.completed /\ call.opts.enable_penny_stock
    /\ Len(PennyPicks(call.candidates)) > PENNY_STOCK_MAX_PICKS
    /\ Len(call.result) = PENNY_STOCK_MAX_PICKS
    /\ \E i, j \in DOMAIN call.result :
          RLess(call.result[j].conviction_score, call.result[i].conviction_score)

\* C20: what a scan returns is in descending conviction (outside penny-stock
\* mode), holds at most HVB_MAX_PICKS picks of strategy HVB, and no HVB pick
\* of the symbol loop that met the conviction floor outranks a returned HVB
\* pick.
C20_BestHvbSurvives ==
    (call.fn = "scan_market" /\ call.completed) =>
       LET res == call.result
           found == call.symbol_picks
       IN /\ ~call.opts.enable_penny_stock =>
                \A i, j \in DOMAIN res :
                   i < j => ~RLess(res[i].conviction_score, res[j].conviction_score)
          /\ Cardinality({i \in DOMAIN res : res[i].strategy = "HVB"}) <= HVB_MAX_PICKS
          /\ \A i \in DOMAIN res, k \in DOMAIN found :
                (/\ res[i].strategy = "HVB"
                 /\ found[k].exists
                 /\ found[k].strategy = "HVB"
                 /\ ~RLess(found[k].conviction_score, FromInt(MIN_CONVICTION_SCORE))) =>
                   ~RLess(res[i].conviction_score, found[k].conviction_score)

\* C21: every can_trade call of one scan sees the same daily-loss and
\* position-cap verdicts as the risk check made at the start of the scan,
\* whatever another process writes to the ledger meanwhile.
C21_OneGateSnapshotPerScan ==
    \A p \in Procs :
       proc[p].pc = "scanning" =>
          \A k \in DOMAIN proc[p].gates : proc[p].gates[k] = proc[p].gates[1]

\* Whether no update_from_outcome has run since the last restart: each one
\* rewrites a strategy_stats row.
FreshInstance == call.fn = "LearningEngine" /\ strategy_stats = call.stats

\* C22: a newly constructed LearningEngine holds weight 1.0 for every
\* strategy whatever the strategy_stats rows, and its
\* apply_learning_to_score uses those weights: the weights of the earlier
\* instance contribute nothing.
C22_WeightsNeutralAfterRestart ==
    FreshInstance =>
       /\ \A s \in WeightedStrategies : strategy_weights[call.proc][s] = 100
       /\ applied.called =>
             /\ \A s \in WeightedStrategies : applied.weights[s] = 100
             /\ applied.total_picks >= MIN_TRADES_BEFORE_LEARNING =>
                   applied.result.conviction_score =
                      RMax(FromInt(0), RMin(FromInt(100),
                           RSub(applied.pick.conviction_score,
                                SumPenalties(ApplicablePenalties(applied.pick,
                                                                 applied.penalties)))))

\* A restart dropped changed weights while the ledger holds a strategy_stats
\* row of five picks or more, and the new instance then scored a candidate of
\* that strategy in a learning mode.
C22_Witness ==
    /\ FreshInstance
    /\ applied.called
    /\ applied.total_picks >= MIN_TRADES_BEFORE_LEARNING
    /\ call.dropped[applied.pick.strategy] # 100
    /\ strategy_stats[<<applied.pick.strategy, "bullish">>].exists
    /\ strategy_stats[<<applied.pick.strategy, "bullish">>].total_picks >= 5

\* C23: can_trade returns check 'daily_loss' whenever the daily-loss check
\* fails, 'concurrent_positions' exactly when the daily-loss check passes and
\* the position check fails, 'no_trade' exactly when both pass and the
\* no-trade check fails, and allows the trade exactly when all three pass.
C23_FirstFailingGateNamed ==
    call.fn = "can_trade" =>
       /\ ~call.daily_loss =>
             (~call.result.allowed /\ call.result.check = "daily_loss")
       /\ call.result.check = "daily_loss" => ~call.daily_loss
       /\ call.result.check = "concurrent_positions" <=>
             (call.daily_loss /\ ~call.positions)
       /\ call.result.check = "no_trade" <=>
             (call.daily_loss /\ call.positions /\ ~call.no_trade)
       /\ call.result.allowed <=>
             (call.daily_loss /\ call.positions /\ call.no_trade)

\* A can_trade call on which all three checks fail.
C23_Witness ==
    /\ call.fn = "can_trade"
    /\ ~call.daily_loss /\ ~call.positions /\ ~call.no_trade
    /\ call.result.check = "daily_loss"

\* C24: through a weight recalculation (the one update_from_outcome runs
\* after it has updated strategy_stats, for the regime of the evaluated pick)
\* a strategy whose row for that regime is missing or has fewer than 5 picks
\* keeps its weight.
C24_SmallSampleKeepsWeight ==
    [][\A p \in Procs, s \in WeightedStrategies :
          (/\ proc[p].pc = "evaluating"
           /\ outcomes' # outcomes
           /\ LET details == GetPickDetails(picks, Head(proc[p].pending).pick_id)
                  row == strategy_stats'[<<s, details.market_regime>>]
              IN ~row.exists \/ row.total_picks < 5)
          => strategy_weights'[p][s] = strategy_weights[p][s]]_vars

\* A recalculation has moved the weight of one strategy while another one,
\* whose row has fewer than 5 picks and an expectancy above 1.0, kept 1.0.
C24_Witness ==
    /\ \E s \in WeightedStrategies : strategy_weights[1][s] # 100
    /\ \E s \in WeightedStrategies :
          /\ strategy_stats[<<s, "bullish">>].exists
          /\ strategy_stats[<<s, "bullish">>].total_picks < 5
          /\ RLess(FromInt(1), Expectancy(strategy_stats[<<s, "bullish">>]))
          /\ strategy_weights[1][s] = 100

\* C25: whenever the strategy-weight term changes the adjusted conviction
\* (here: by more than half a point, on a pick that matches no penalty
\* pattern), learning_adjustments holds an entry for it.
C25_WeightTermInTrail ==
    (call.fn = "apply_learning_to_score" /\ call.above_half) =>
        \E i \in DOMAIN call.learning_adjustments :
           call.learning_adjustments[i] = "strategy_weight"

\* successful_picks of a strategy_stats row, occurrences and failures of the
\* low-liquidity penalty row; 0 for a missing row.
WonCount(stats, key) == IF stats[key].exists THEN stats[key].successful_picks ELSE 0
SeenCount(penalties) ==
    IF penalties[<<"low_liquidity_hvb", "true">>].exists
    THEN penalties[<<"low_liquidity_hvb", "true">>].occurrences ELSE 0
FailureCount(penalties) ==
    IF penalties[<<"low_liquidity_hvb", "true">>].exists
    THEN penalties[<<"low_liquidity_hvb", "true">>].failures ELSE 0

\* C26: an evaluated outcome counts as a successful pick of its strategy
\* exactly when final_return > 0 or the target was hit; the feature
\* penalties change only when the stop was hit or final_return < -5, and
\* then the low-liquidity pattern of a thinly traded HVB pick is counted as
\* a failure, whether or not the outcome also counted as a success.
C26_SuccessAndFailureIndependent ==
    [][Len(outcomes') = Len(outcomes) + 1 =>
         LET outcome == outcomes'[Len(outcomes')]
             details == GetPickDetails(picks, outcome.pick_id)
             key == <<details.strategy, details.market_regime>>
             successful == outcome.final_return > 0 \/ outcome.hit_target
             failed == outcome.hit_stop \/ outcome.final_return < -5
         IN details.exists =>
               /\ WonCount(strategy_stats', key) =
                     WonCount(strategy_stats, key) + (IF successful THEN 1 ELSE 0)
               /\ ~failed => feature_penalties' = feature_penalties
               /\ (failed /\ details.strategy = "HVB") =>
                     /\ SeenCount(feature_penalties') = SeenCount(feature_penalties) + 1
                     /\ FailureCount(feature_penalties') =
                           FailureCount(feature_penalties) + 1]_vars

\* Outcomes flagged both ways and neither way have been evaluated: the
\* whipsaw of an HVB pick is among the successful picks and among the
\* pattern's failures.
C26_Witness ==
    /\ \E j \in DOMAIN outcomes :
          /\ outcomes[j].final_return > 0 /\ outcomes[j].hit_stop
          /\ GetPickDetails(picks, outcomes[j].pick_id).strategy = "HVB"
    /\ \E j \in DOMAIN outcomes :
          /\ outcomes[j].final_return <= 0 /\ outcomes[j].final_return >= -5
          /\ ~outcomes[j].hit_target /\ ~outcomes[j].hit_stop
    /\ WonCount(strategy_stats, <<"HVB", "bullish">>) >= 1
    /\ FailureCount(feature_penalties) >= 1

\* C27: when calculate_composite_scores is given no price series, each of
\* the six dimension scores computed from it is the neutral midpoint 50, and
\* the sentiment score is 50 when no sentiment data is given.
C27_MissingInputScoresNeutral ==
    call.fn = "calculate_composite_scores" =>
       /\ Empty(call.daily_df) =>
             \A k \in {"trend", "momentum", "volume", "volatility", "liquidity", "risk"} :
                call.result.dimension_scores[k] = FromInt(50)
       /\ ~call.sentiment_data.given =>
             call.result.dimension_scores["sentiment"] = FromInt(50)

\* C27, amended: without a price series the trend, momentum, volume,
\* volatility and risk scores are 50 and the liquidity score is 0; without
\* sentiment data the sentiment score is 50.
C27_MissingInputDefaults ==
    call.fn = "calculate_composite_scores" =>
       /\ Empty(call.daily_df) =>
             /\ \A k \in {"trend", "momentum", "volume", "volatility", "risk"} :
                   call.result.dimension_scores[k] = FromInt(50)
             /\ call.result.dimension_scores["liquidity"] = FromInt(0)
       /\ ~call.sentiment_data.given =>
             call.result.dimension_scores["sentiment"] = FromInt(50)

\* The composite scores were computed with neither a price series nor
\* sentiment data.
C27_Witness ==
    /\ call.fn = "calculate_composite_scores"
    /\ Empty(call.daily_df)
    /\ ~call.sentiment_data.given
    /\ call.result.conviction_score = FromInt(45)

\* C28: every feature_penalties row has failures equal to occurrences, its
\* penalty is 10 when the pattern has failed once and 30 when it has failed
\* more often, and no step removes a row or lowers its penalty.
C28_PenaltyTenThenThirty ==
    /\ [](\A k \in DOMAIN feature_penalties :
            feature_penalties[k].exists =>
               /\ feature_penalties[k].occurrences >= 1
               /\ feature_penalties[k].failures = feature_penalties[k].occurrences
               /\ feature_penalties[k].penalty_score =
                     (IF feature_penalties[k].occurrences = 1
                      THEN FromInt(10) ELSE FromInt(30)))
    /\ [][\A k \in DOMAIN feature_penalties :
            feature_penalties[k].exists =>
               /\ feature_penalties'[k].exists
               /\ ~RLess(feature_penalties'[k].penalty_score,
                         feature_penalties[k].penalty_score)]_vars

\* A pattern has failed once and another, or the same one later, three
\* times, among outcomes some of which were not failures.
C28_Witness ==
    /\ \E k \in DOMAIN feature_penalties :
          feature_penalties[k].exists /\ feature_penalties[k].occurrences >= 3
    /\ \E j \in DOMAIN outcomes :
          ~outcomes[j].hit_stop /\ outcomes[j].final_return >= -5

\* total_picks of a strategy_stats row; 0 for a missing row.
TotalCount(stats, key) == IF stats[key].exists THEN stats[key].total_picks ELSE 0

\* C29: a turn of the evaluation loop that finds no price data for its pick
\* saves an outcome row for that pick with mfe, mae and final_return 0 and
\* neither level hit, counts the pick in its strategy row without counting
\* a success, and leaves the feature penalties alone; and a run that starts
\* when a pick has an outcome row does not have the pick in its pending list.
C29_NoDataOutcomeSettlesPick ==
    /\ [][(proc[1].pc = "evaluating" /\ proc'[1] # proc[1]) =>
            LET pick == Head(proc[1].pending)
                row == outcomes'[Len(outcomes')]
                details == GetPickDetails(picks, pick.pick_id)
                key == <<details.strategy, details.market_regime>>
            IN /\ Len(outcomes') = Len(outcomes) + 1
               /\ row.pick_id = pick.pick_id
               /\ row.mfe = 0 /\ row.mae = 0 /\ row.final_return = 0
               /\ ~row.hit_target /\ ~row.hit_stop
               /\ TotalCount(strategy_stats', key) = TotalCount(strategy_stats, key) + 1
               /\ WonCount(strategy_stats', key) = WonCount(strategy_stats, key)
               /\ feature_penalties' = feature_penalties]_vars
    /\ [][\A p \in Procs :
            (proc[p].pc = "idle" /\ proc'[p].pc = "evaluating") =>
               \A i \in DOMAIN proc'[p].pending :
                  OutcomesOf(proc'[p].pending[i].pick_id) = {}]_vars

\* A run has started after an outcome without price data was saved.
C29_Witness ==
    /\ \E j \in DOMAIN outcomes :
          /\ outcomes[j].mfe = 0 /\ outcomes[j].mae = 0
          /\ outcomes[j].final_return = 0
          /\ \E p \in Procs :
                /\ proc[p].pc = "evaluating"
                /\ \A i \in DOMAIN proc[p].pending :
                      proc[p].pending[i].pick_id # outcomes[j].pick_id
    /\ \E p \in Procs : proc[p].pc = "idle"

\* A pick created today has an outcome with a negative return.
LosingPickToday ==
    \E i \in DOMAIN picks, j \in DOMAIN outcomes :
       /\ picks[i].pick_id = outcomes[j].pick_id
       /\ picks[i].timestamp.day = now.day
       /\ outcomes[j].final_return < 0

\* A pick created on an earlier day has an outcome with a negative return.
LosingPickEarlier ==
    \E i \in DOMAIN picks, j \in DOMAIN outcomes :
       /\ picks[i].pick_id = outcomes[j].pick_id
       /\ picks[i].timestamp.day < now.day
       /\ outcomes[j].final_return < 0

\* C30: over a step within one calendar day the loss total of
\* check_daily_loss_threshold does not decrease, a kill-switch that refused
\* before the step refuses after it, and a scan that starts while it refuses
\* returns no picks and writes none; and the total is 0 whenever no pick
\* created today has a losing outcome.
C30_KillSwitchLatchesForTheDay ==
    /\ [][now'.day = now.day =>
            /\ ~RLess(TotalLoss(picks', outcomes', now'), TotalLoss(picks, outcomes, now))
            /\ ~CheckDailyLossThreshold(picks, outcomes, now).allowed =>
                  /\ ~CheckDailyLossThreshold(picks', outcomes', now').allowed
                  /\ scanResult'.ran =>
                        (scanResult'.returned = << >> /\ picks' = picks)]_vars
    /\ [](~LosingPickToday => TotalLoss(picks, outcomes, now) = FromInt(0))

\* A scan has just been halted by the kill-switch on a day whose total
\* leaves out the loss of a pick of the day before.
C30_Witness ==
    /\ scanResult.ran
    /\ scanResult.returned = << >>
    /\ ~CheckDailyLossThreshold(picks, outcomes, now).allowed
    /\ LosingPickEarlier

====
